---- MODULE Spec2Model ----
(***************************************************************************)
(* Model of the log-ingestion auth proxy: the request gate                 *)
(* (AuthMiddleware), the logs handler, the token validator, the tenant     *)
(* resolver and the batching ElasticsearchStorage (pending map, bounded    *)
(* channel, batcher goroutine, worker goroutines, Close).                  *)
(***************************************************************************)
EXTENDS Integers, Sequences, FiniteSets, TLC

(***************************************************************************)
(* Bounds.  The program's sizes (batchSize 100, channel capacity 1000,     *)
(* five workers) are scaled down; every one of them is raised when the     *)
(* model is re-checked.                                                    *)
(***************************************************************************)
\* es.batchSize (100 in NewElasticsearchStorage), scaled down
batchSize == 2
\* cap(es.batchChan) (1000 in NewElasticsearchStorage), scaled down
batchChanCap == 1
\* number of worker goroutines (5 in NewElasticsearchStorage), scaled down
NumWorkers == 2
\* largest number of log objects in one request body / StoreLogs call
MaxLogs == 3
\* slots of the bulk indexer's queue (NumWorkers: runtime.NumCPU())
IndexerNumWorkers == 1
\* total number of log records created in one behaviour
MaxRecords == 3
\* number of StoreLogs calls of the data-stream build started in one behaviour
MaxFlushes == 2
\* largest number of log objects in one call of a build that writes in the
\* caller's goroutine
MaxSyncLogs == 2

Workers == 1..NumWorkers

\* accountID strings the storage is called with directly
AccountIDs == {"42", "77"}

(***************************************************************************)
(* State.                                                                  *)
(***************************************************************************)
VARIABLES
    pendingBatches,  \* package-level map accountID -> slice of logs
    batchChan,       \* contents of the buffered channel es.batchChan
    chanClosed,      \* close(es.batchChan) has run
    ctxDone,         \* es.ctx is cancelled
    tickerStopped,   \* es.flushTicker.Stop() has run
    tickC,           \* a tick is buffered in es.flushTicker.C
    workerPc,        \* position of each worker goroutine
    workerBatch,     \* the batch a worker passed to bulkWrite
    workerReq,       \* es.ctx as bulkWrite's request found it
    batcherPc,       \* position of the batcher goroutine
    batchMutex,      \* who holds the package-level batchMutex
    flushing,        \* the flushAll call of each storage instance: its
                     \* position, the keys its range loop has yet to visit
    closePc,         \* position of the Close call
    nextId,          \* identity of the next log record created
    closeMark,       \* history: nextId when Close was called
    failedSend,      \* history: records in flight whose hand-off once failed
    ret,             \* history: outcome of the last StoreLogs call
    skipVerify,      \* JWTValidator.skipVerify
    resp,            \* history: how the last HTTP request was answered
    serving,         \* each request whose StoreLogs call has returned and
                     \* whose answer is not written yet
    syncCall,        \* each StoreLogs call of the bulk-indexer build
    syncOut,         \* the items each call handed over, and its result
    indexer,         \* the bulk indexer: its queue, and whether it is closed
    applied,         \* the last application of a pure function, and its result
    esTemplates,     \* backend: the index templates that exist
    esStreams,       \* backend: the data streams that exist
    flush,           \* each concurrent StoreLogs call of a data-stream
                     \* build: arguments, body, provisioning and bulk steps
    flushCount,      \* number of those calls started
    ensured,         \* history: the data streams for which a call of
                     \* ensureDataStreamExists has returned nil
    created,         \* history: per data stream, the PUTs that created it
    writeLog,        \* history: per worker, what its last bulkWrite returned
                     \* ("error" is the log line "Failed to write batch")
    otherChan        \* batchChan of a second ElasticsearchStorage instance
                     \* of the same process

\* the batching storage
storageVars == <<pendingBatches, batchChan, chanClosed, ctxDone,
                 tickerStopped, tickC, workerPc, workerBatch, workerReq,
                 batcherPc, batchMutex, flushing, closePc, nextId,
                 closeMark, failedSend, ret>>
\* the validator's configuration and the HTTP exchange
httpVars == <<skipVerify, resp, serving>>
\* the bulk-indexer build of the storage
syncVars == <<syncCall, syncOut, indexer>>
\* the pure functions applied on their own
pureVars == <<applied>>
\* the backend and the provisioning calls of the data-stream build
ensureVars == <<esTemplates, esStreams, flush, flushCount, ensured, created>>
\* the workers' log and the second storage instance
auxVars == <<writeLog, otherChan>>
\* what the goroutines of the batching storage leave alone
notStorage == <<httpVars, syncVars, pureVars, ensureVars, auxVars>>

vars == <<storageVars, httpVars, syncVars, pureVars, ensureVars, auxVars>>

NoBatch == [accountID |-> "", logs |-> <<>>]

\* the storage instances of the process: the one the requests go to, and a
\* second one built in the same process
Instances == {"es", "other"}

\* no flushAll call is running in the instance
NoFlushAll == [pc |-> "idle", todo |-> {}, key |-> "", sent |-> {},
               full |-> {}]

\* StoreLogs was not called
NoCall == "none"

NoResponse == [status |-> 0, validated |-> FALSE, accepted |-> FALSE,
               tenant |-> 0, next |-> FALSE, stored |-> NoCall]

\* the goroutines that serve requests at the same time
Callers == {1, 2}

\* the goroutine serves no request, or has answered the one it served
NoServing == [pc |-> "idle", answer |-> NoResponse]

\* no StoreLogs call of the bulk-indexer build is in progress in this caller
NoSyncCall == [pc |-> "idle", build |-> "none", accountID |-> "",
               logs |-> <<>>, http |-> FALSE, base |-> NoResponse]

NoSyncOut == [body |-> <<>>, sent |-> FALSE, ret |-> "none"]

\* the bulk indexer NewElasticsearchStorage leaves: nothing queued, open
NewBulkIndexer == [queue |-> <<>>, closed |-> FALSE, closeRet |-> "none"]

\* no function is being applied
NoApplication == [fn |-> "none"]

(***************************************************************************)
(* Go map and slice helpers.                                               *)
(***************************************************************************)
Range(s) == {s[i] : i \in 1..Len(s)}

\* m[k] of a Go map: the zero value (nil slice) when the key is absent
MapGet(m, k) == IF k \in DOMAIN m THEN m[k] ELSE <<>>

\* m[k] = v
MapPut(m, k, v) == [x \in (DOMAIN m) \cup {k} |-> IF x = k THEN v ELSE m[x]]

\* delete(m, k)
MapDelete(m, k) == [x \in (DOMAIN m) \ {k} |-> m[x]]

\* the records of n fresh log objects, in the order of the request's array
NewLogs(n) == [i \in 1..n |-> nextId + i - 1]

PendingRecords == UNION {Range(pendingBatches[a]) : a \in DOMAIN pendingBatches}
QueuedRecords == UNION {Range(batchChan[i].logs) : i \in 1..Len(batchChan)}
HeldRecords == UNION {Range(workerBatch[w].logs) : w \in Workers}

\* the records the storage holds: pending, queued or passed to bulkWrite
InFlight == PendingRecords \cup QueuedRecords \cup HeldRecords

(***************************************************************************)
(* The batching storage.                                                   *)
(***************************************************************************)
\* faulty variant: the threshold compared with > instead of >=
ThresholdReachedStrict(n) == n > batchSize

\* `len(pendingBatches[accountID]) >= es.batchSize`
ThresholdReached(n) == n >= batchSize

\* faulty variant: flushAll hands over only the batches that reached the threshold
FlushEligibleAtThreshold(logs) == Len(logs) >= batchSize

\* flushAll: `if len(logs) > 0`
FlushEligible(logs) == Len(logs) > 0

\* the non-blocking send `select { case es.batchChan <- b: ... default: ... }`
\* succeeds when the buffer has room
SendSucceeds(chan) == Len(chan) < batchChanCap

\* the batch StoreLogs detaches once the threshold is reached: all of it
DetachedBatch(logs) == logs

\* faulty variant: the logs of a call are appended last first
AppendLogsReversed(pending, logs) ==
    pending \o [i \in 1..Len(logs) |-> logs[Len(logs) + 1 - i]]

\* `append(pendingBatches[accountID], logs...)`
AppendLogs(pending, logs) == pending \o logs

\* faulty variant: a batch whose hand-off failed is dropped
DropOnFull(pend, accountID, batch) == pend

\* StoreLogs, default branch of the send: `pendingBatches[accountID] = batch`
KeepOnFull(pend, accountID, batch) == MapPut(pend, accountID, batch)

\* StoreLogs: the state it leaves and what it returns
StoreLogs(accountID, logs) ==
    IF Len(logs) = 0
    THEN [pend |-> pendingBatches, chan |-> batchChan, failed |-> {},
          ret |-> "nil", sends |-> 0]
    ELSE LET appended == AppendLogs(MapGet(pendingBatches, accountID), logs)
             p1 == MapPut(pendingBatches, accountID, appended)
             batch == DetachedBatch(appended)
             rest == SubSeq(appended, Len(batch) + 1, Len(appended))
             p2 == IF rest = <<>> THEN MapDelete(p1, accountID)
                   ELSE MapPut(p1, accountID, rest)
         IN IF ThresholdReached(Len(appended))
            THEN IF chanClosed
                 THEN \* send on a closed channel panics; the deferred
                      \* Unlock runs, the detached batch is gone
                      [pend |-> p2, chan |-> batchChan, failed |-> {},
                       ret |-> "panic", sends |-> 1]
                 ELSE IF SendSucceeds(batchChan)
                 THEN [pend |-> p2,
                       chan |-> Append(batchChan,
                                  [accountID |-> accountID, logs |-> batch]),
                       failed |-> {}, ret |-> "nil", sends |-> 1]
                 ELSE \* default branch: pendingBatches[accountID] = batch
                      [pend |-> KeepOnFull(p2, accountID, batch),
                       chan |-> batchChan, failed |-> Range(batch),
                       ret |-> "nil", sends |-> 1]
            ELSE [pend |-> p1, chan |-> batchChan, failed |-> {},
                  ret |-> "nil", sends |-> 0]

\* faulty variant: flushAll drops the batch it could not send
DeletedOnFull(pend, accountID) == MapDelete(pend, accountID)

\* flushAll, default branch of the send: "dropping batch" is logged and
\* the map entry is left as it is
LeftOnFull(pend, accountID) == pend

(***************************************************************************)
(* The synchronous builds of the storage: StoreLogs builds one bulk        *)
(* request per call, choosing each record's destination from the tenant    *)
(* the record asserts and the tenant of the caller's credential.           *)
(***************************************************************************)
\* the reserved "unassigned" tenant
Sentinel == "1000000"

\* a JSON value as encoding/json decodes it into interface{}
JAbsent == [type |-> "absent", str |-> "", num |-> 0]
JNull == [type |-> "nil", str |-> "", num |-> 0]
JString(s) == [type |-> "string", str |-> s, num |-> 0]
JNumber(n) == [type |-> "float64", str |-> "", num |-> n]
\* true / false
JBool(b) == [type |-> "bool", str |-> "", num |-> IF b THEN 1 ELSE 0]
\* the array [n] of one number
JArray1(n) == [type |-> "array", str |-> "", num |-> n]
\* the object {"a": n}
JObject1(n) == [type |-> "object", str |-> "", num |-> n]

\* fmt.Sprintf("%.0f", t) of a float64 holding a whole number
FormatFloat0(n) == ToString(n)

\* the number of decimal digits of a natural number
RECURSIVE NumDigits(_)
NumDigits(n) == IF n < 10 THEN 1 ELSE 1 + NumDigits(n \div 10)

\* a natural number without its trailing zeros
RECURSIVE StripZeros(_)
StripZeros(n) == IF n # 0 /\ n % 10 = 0 THEN StripZeros(n \div 10) ELSE n

\* the last k decimal digits of n, with leading zeros
RECURSIVE Digits(_, _)
Digits(n, k) ==
    IF k = 0 THEN "" ELSE Digits(n \div 10, k - 1) \o ToString(n % 10)

\* the shortest mantissa m with the point after its first digit
FormatMantissa(m) ==
    LET k == NumDigits(m)
        Pow10[i \in 0..k] == IF i = 0 THEN 1 ELSE 10 * Pow10[i - 1]
        first == m \div Pow10[k - 1]
        rest == m % Pow10[k - 1]
    IN ToString(first)
       \o (IF k > 1 THEN "." \o Digits(rest, k - 1) ELSE "")

\* the %e form of a natural number with the shortest digits: d.ddde+XX,
\* the exponent with at least two digits
ExponentForm(n) ==
    LET exp == NumDigits(n) - 1
    IN FormatMantissa(StripZeros(n))
       \o "e+" \o (IF exp < 10 THEN "0" ELSE "") \o ToString(exp)

\* %g with the shortest digits of a natural number: the %e form when the
\* decimal exponent is 6 or more
FormatGNat(n) == IF n < 1000000 THEN ToString(n) ELSE ExponentForm(n)

\* fmt.Sprintf("%v", f) of a float64 holding a whole number
FormatG(n) == IF n < 0 THEN "-" \o FormatGNat(-n) ELSE FormatGNat(n)

\* fmt.Sprintf("%v", t) of a bool, of a []interface{} of one number and of
\* a map[string]interface{} with the one key "a"; the number is a float64
FormatV(v) ==
    CASE v.type = "bool"   -> IF v.num = 1 THEN "true" ELSE "false"
      [] v.type = "array"  -> "[" \o FormatG(v.num) \o "]"
      [] v.type = "object" -> "map[a:" \o FormatG(v.num) \o "]"

\* the string a tenant field holds: "" when the key is absent or null, a
\* string as it is, a number formatted with %.0f, anything else (the
\* default arm of the type switch) formatted with %v
AccountOfValue(v) ==
    CASE v.type \in {"absent", "nil"} -> ""
      [] v.type = "string"            -> v.str
      [] v.type = "float64"           -> FormatFloat0(v.num)
      [] OTHER                        -> FormatV(v)

\* extractAccountIdFromLog of the data-stream build: reads "account_id"
extractAccountIdFromLog(logEntry) == AccountOfValue(logEntry.account_id)

\* faulty variant: the credential tenant whatever the record asserts
chooseAccountIdTokenOnly(logAccount, tokenAccount) == tokenAccount

\* chooseAccountId
chooseAccountId(logAccount, tokenAccount) ==
    IF logAccount # ""
    THEN IF logAccount = "1000000" THEN tokenAccount
         ELSE IF logAccount = tokenAccount THEN tokenAccount
         ELSE logAccount
    ELSE tokenAccount

\* the selection rules written inline in the earlier data-stream build
inlineEffectiveAccount(logAccount, accountID) ==
    IF logAccount # ""
    THEN IF logAccount = "1000000" THEN "1000000"
         ELSE IF logAccount = accountID THEN accountID
         ELSE logAccount
    ELSE accountID

\* extractAccountIdFromLog of the bulk-indexer build:
\* `logEntry["log_account_id"].(string)`
extractLogAccountID(logEntry) ==
    IF logEntry.log_account_id.type = "string"
    THEN logEntry.log_account_id.str
    ELSE ""

\* chooseEffectiveAccountID
chooseEffectiveAccountID(logAccountID, tokenAccountID) ==
    IF logAccountID = "1000000" \/ logAccountID = "" THEN tokenAccountID
    ELSE IF logAccountID # tokenAccountID THEN logAccountID
    ELSE tokenAccountID

\* fmt.Sprintf("account-%s-logs", effectiveAccount)
dsName(effectiveAccount) == "account-" \o effectiveAccount \o "-logs"

\* fmt.Sprintf("logs-account-%s", effectiveAccountID)
indexName(effectiveAccountID) == "logs-account-" \o effectiveAccountID

\* the document written for logEntry: its own fields and the added columns
Document(logEntry, tokenAccount, logAccountColumn) ==
    [account_id |-> logEntry.account_id,
     log_account_id |-> logEntry.log_account_id,
     token_accountId |-> JString(tokenAccount),
     log_accountId |-> logAccountColumn,
     timestamp |-> TRUE]

\* one action line and one document line of the bulk body
BulkItem(index, doc) == [index |-> index, doc |-> doc]

\* the loop of StoreLogs in the data-stream build
BulkBodyDataStream(accountID, logs) ==
    [i \in 1..Len(logs) |->
        LET logAccount == extractAccountIdFromLog(logs[i])
            effectiveAccount == chooseAccountId(logAccount, accountID)
        IN BulkItem(dsName(effectiveAccount),
                    Document(logs[i], accountID, JString(logAccount)))]

\* the loop of StoreLogs in the earlier data-stream build
BulkBodyInline(accountID, logs) ==
    [i \in 1..Len(logs) |->
        LET logAccount == AccountOfValue(logs[i].account_id)
            effectiveAccount == inlineEffectiveAccount(logAccount, accountID)
        IN BulkItem(dsName(effectiveAccount),
                    Document(logs[i], accountID, JString(logAccount)))]

\* the items StoreLogs of the bulk-indexer build hands to indexer.Add
BulkItemsIndexer(tokenAccountID, logs) ==
    [i \in 1..Len(logs) |->
        LET logAccountID == extractLogAccountID(logs[i])
            effectiveAccountID ==
                chooseEffectiveAccountID(logAccountID, tokenAccountID)
        IN BulkItem(indexName(effectiveAccountID),
                    Document(logs[i], tokenAccountID, JAbsent))]


(***************************************************************************)
(* Provisioning of the data-stream builds.  The backend answers a round    *)
(* trip ("answer": a status that tells the truth about what exists), fails *)
(* it with a server error ("5xx"), or the request itself fails ("err").    *)
(***************************************************************************)
\* the StoreLogs calls that run concurrently, one per HTTP request
Flushers == {1, 2}

\* the bulk body a data-stream build writes before it provisions
BodyOf(build, accountID, logs) ==
    IF build = "inline" THEN BulkBodyInline(accountID, logs)
    ELSE BulkBodyDataStream(accountID, logs)

\* dsSet: the data streams named in the body
dsSetOf(body) == {body[i].index : i \in 1..Len(body)}

\* the orders in which a range loop can visit the keys of a set
SetOrders(S) ==
    LET n == Cardinality(S)
    IN {o \in [1..n -> S] : \A i, j \in 1..n : i # j => o[i] # o[j]}

RoundTrips == {"answer", "5xx", "err"}

\* a call that is not in progress
NoFlush == [pc |-> "idle", build |-> "none", accountID |-> "",
            logs |-> <<>>, body |-> <<>>, sent |-> FALSE, todo |-> <<>>,
            addressed |-> {}, confirmed |-> {}, issued |-> {},
            ret |-> "none"]

\* the status of a HEAD on a template or data stream
HeadStatus(outcome, present) ==
    IF outcome = "5xx" THEN 500 ELSE IF present THEN 200 ELSE 404

\* checkIndexTemplateExists / checkDataStreamExists: `StatusCode != 404`
checkExists(outcome, present) ==
    IF outcome = "err" THEN [exists |-> FALSE, err |-> TRUE]
    ELSE [exists |-> HeadStatus(outcome, present) # 404, err |-> FALSE]

\* the status of PUT /_index_template/<name>: the PUT creates or replaces it
PutTemplateStatus(outcome) == IF outcome = "5xx" THEN 500 ELSE 200

\* createIndexTemplate
createIndexTemplate(outcome) ==
    IF outcome = "err" THEN "error"
    ELSE IF PutTemplateStatus(outcome) \in 200..299 THEN "nil"
    ELSE "error"

\* the status of PUT /_data_stream/<name>: 400 when the stream exists
PutStreamStatus(outcome, present) ==
    IF outcome = "5xx" THEN 500 ELSE IF present THEN 400 ELSE 200

\* faulty variant: an already-exists answer is an error
createDataStreamStrict(outcome, present) ==
    IF outcome = "err" THEN "error"
    ELSE IF PutStreamStatus(outcome, present) \in 200..299 THEN "nil"
    ELSE "error"

\* createDataStream: every failure is logged and nil is returned
createDataStream(outcome, present) ==
    IF outcome = "err" THEN "nil"
    ELSE IF PutStreamStatus(outcome, present) \in 200..299 THEN "nil"
    ELSE IF PutStreamStatus(outcome, present) = 400 THEN "nil"
    ELSE "nil"

\* the bulk request of StoreLogs: an error of client.Do or a status outside
\* 2xx is returned as an error
bulkResult(outcome) == IF outcome = "answer" THEN "nil" ELSE "error"

(***************************************************************************)
(* Strings.  A string is the sequence of its characters, each a string of  *)
(* one character.                                                          *)
(***************************************************************************)
Space == " "

\* the words of the headers, spelled out
Chars(w) ==
    CASE w = "Bearer"       -> <<"B", "e", "a", "r", "e", "r">>
      [] w = "bearer"       -> <<"b", "e", "a", "r", "e", "r">>
      [] w = "BEARER"       -> <<"B", "E", "A", "R", "E", "R">>
      [] w = "bEaReR"       -> <<"b", "E", "a", "R", "e", "R">>
      [] w = "Basic"        -> <<"B", "a", "s", "i", "c">>
      [] w = "tok42"        -> <<"t", "o", "k", "4", "2">>
      [] w = "tok77"        -> <<"t", "o", "k", "7", "7">>
      [] w = "tokExpired"   -> <<"t", "o", "k", "E", "x", "p", "i", "r", "e", "d">>
      [] w = "tokNoAccount" -> <<"t", "o", "k", "N", "o", "A", "c", "c", "o", "u", "n", "t">>
      [] w = "tokBadSig"    -> <<"t", "o", "k", "B", "a", "d", "S", "i", "g">>
      [] w = "tokHS256"     -> <<"t", "o", "k", "H", "S", "2", "5", "6">>
      [] w = "tokGarbage"   -> <<"t", "o", "k", "G", "a", "r", "b", "a", "g", "e">>
      [] w = "x"            -> <<"x">>

\* unicode.ToLower on a character of the headers
LowerChar(c) ==
    CASE c = "A" -> "a"
      [] c = "B" -> "b"
      [] c = "C" -> "c"
      [] c = "D" -> "d"
      [] c = "E" -> "e"
      [] c = "F" -> "f"
      [] c = "G" -> "g"
      [] c = "H" -> "h"
      [] c = "I" -> "i"
      [] c = "J" -> "j"
      [] c = "K" -> "k"
      [] c = "L" -> "l"
      [] c = "M" -> "m"
      [] c = "N" -> "n"
      [] c = "O" -> "o"
      [] c = "P" -> "p"
      [] c = "Q" -> "q"
      [] c = "R" -> "r"
      [] c = "S" -> "s"
      [] c = "T" -> "t"
      [] c = "U" -> "u"
      [] c = "V" -> "v"
      [] c = "W" -> "w"
      [] c = "X" -> "x"
      [] c = "Y" -> "y"
      [] c = "Z" -> "z"
      [] OTHER   -> c

\* strings.ToLower
ToLower(s) == [i \in 1..Len(s) |-> LowerChar(s[i])]

\* index of the first space of s, 0 when there is none
RECURSIVE IndexSpace(_, _)
IndexSpace(s, i) ==
    IF i > Len(s) THEN 0
    ELSE IF s[i] = Space THEN i
    ELSE IndexSpace(s, i + 1)

\* strings.SplitN(s, " ", 2)
SplitN2(s) ==
    LET i == IndexSpace(s, 1)
    IN IF i = 0 THEN <<s>>
       ELSE <<SubSeq(s, 1, i - 1), SubSeq(s, i + 1, Len(s))>>

\* strings.Split(s, " ")
RECURSIVE Split(_)
Split(s) ==
    LET i == IndexSpace(s, 1)
    IN IF i = 0 THEN <<s>>
       ELSE <<SubSeq(s, 1, i - 1)>> \o Split(SubSeq(s, i + 1, Len(s)))

(***************************************************************************)
(* Tokens.  A token string is described by what the JWT library finds in   *)
(* it: whether its header and claims segments decode, its signing method,  *)
(* whether its signature segment decodes and verifies against the          *)
(* configured public key, its exp claim relative to                        *)
(* the time of validation, and its accountId claim; for the validator of   *)
(* the proxy also its customer_id, iss and aud claims, and whether its nbf *)
(* claim lies in the future.                                               *)
(***************************************************************************)
TokenNames == {"tok42", "tok77", "tokExpired", "tokNoAccount", "tokBadSig",
               "tokHS256", "tokGarbage"}

Token(parses, alg, sigOK, hasExp, expiresIn, accountId) ==
    [parses |-> parses, alg |-> alg, sigOK |-> sigOK, hasExp |-> hasExp,
     expiresIn |-> expiresIn, AccountID |-> accountId, CustomerID |-> "",
     Issuer |-> "akto", Audience |-> <<>>, notYetValid |-> FALSE]

Unparsable == Token(FALSE, "", FALSE, FALSE, 0, 0)

\* the tokens that the names stand for
NamedToken(name) ==
    CASE name = "tok42"        -> Token(TRUE, "RS256", TRUE, TRUE, 60, 42)
      [] name = "tok77"        -> Token(TRUE, "RS256", TRUE, FALSE, 0, 77)
      [] name = "tokExpired"   -> Token(TRUE, "RS256", TRUE, TRUE, -60, 42)
      [] name = "tokNoAccount" -> Token(TRUE, "RS256", TRUE, TRUE, 60, 0)
      [] name = "tokBadSig"    -> Token(TRUE, "RS256", FALSE, TRUE, 60, 42)
      [] name = "tokHS256"     -> Token(TRUE, "HS256", TRUE, TRUE, 60, 42)
      [] OTHER                 -> Unparsable

\* s starts with the characters of p
HasPrefix(s, p) == Len(p) <= Len(s) /\ SubSeq(s, 1, Len(p)) = p

\* what the library decodes from a token string.  A name stands for the three
\* segments of a JWT.  Text after it that holds no "." lengthens the
\* signature segment: header and claims decode as before (that is all
\* ParseUnverified looks at), and the segment is no signature of the token
\* (it does not decode, or does not verify).  Text with a "." makes a fourth
\* segment, and no parser accepts the string.
DecodeToken(tokenString) ==
    IF \E name \in TokenNames : HasPrefix(tokenString, Chars(name))
    THEN LET name == CHOOSE n \in TokenNames :
                         HasPrefix(tokenString, Chars(n))
             rest == SubSeq(tokenString, Len(Chars(name)) + 1,
                            Len(tokenString))
         IN IF rest = <<>> THEN NamedToken(name)
            ELSE IF "." \in Range(rest) THEN Unparsable
            ELSE [NamedToken(name) EXCEPT !.sigOK = FALSE]
    ELSE Unparsable

\* on an error Validate returns nil claims
ValidateError(msg) == [err |-> msg, AccountID |-> 0]

\* faulty variant: the claims returned carry a default tenant
ValidateOKDefaultTenant(accountId) == [err |-> "", AccountID |-> 1000000]

\* the claims Validate returns
ValidateOK(accountId) == [err |-> "", AccountID |-> accountId]

\* the signing methods of type *jwt.SigningMethodRSA and *jwt.SigningMethodHMAC
\* (PS256 is of type *jwt.SigningMethodRSAPSS)
IsRSA(alg) == alg \in {"RS256", "RS384", "RS512"}
IsHMAC(alg) == alg \in {"HS256", "HS384", "HS512"}

\* the key function accepts the method for the configured key
MethodAccepted(t, keyKind) ==
    IF keyKind = "rsa" THEN IsRSA(t.alg) ELSE IsHMAC(t.alg)

\* faulty variant: the signature is not verified
VerifiedByMethodOnly(t, keyKind) == MethodAccepted(t, keyKind)

\* the key function accepts the method and the signature verifies against
\* the key it returns
VerifiedBy(t, keyKind) == MethodAccepted(t, keyKind) /\ t.sigOK

\* `claims.ExpiresAt != nil && claims.ExpiresAt.Before(time.Now())`
Expired(t) == t.hasExp /\ t.expiresIn < 0

\* the library's check of exp inside ParseWithClaims: a token without exp
\* passes, one with exp passes when `now.Before(exp)`
verifyExpiresAt(t) == t.hasExp => t.expiresIn > 0

\* jwt.ParseWithClaims with a key function for a key of kind keyKind:
\* structure, signing method, signature, then the registered claims (exp,
\* nbf)
ParseWithClaimsFor(t, keyKind) ==
    /\ t.parses
    /\ VerifiedBy(t, keyKind)
    /\ verifyExpiresAt(t)
    /\ ~t.notYetValid

\* jwt.ParseWithClaims with the key function of Validate
ParseWithClaimsOK(t) == ParseWithClaimsFor(t, "rsa")

\* faulty variant: a token without tenant id is accepted
MissingTenantNever(accountId) == FALSE

\* `customClaims.AccountID == 0`
MissingTenant(accountId) == accountId = 0

\* JWTValidator.Validate on what the library decodes from the token string,
\* for a validator built with skipVerify = skip
ValidateToken(t, skip) ==
    IF skip
    THEN IF ~t.parses THEN ValidateError("failed to parse token")
         ELSE IF MissingTenant(t.AccountID)
         THEN ValidateError("accountId not found in token")
         ELSE ValidateOK(t.AccountID)
    ELSE IF ~ParseWithClaimsOK(t) THEN ValidateError("failed to parse token")
         ELSE IF Expired(t) THEN ValidateError("token expired")
         ELSE IF MissingTenant(t.AccountID)
         THEN ValidateError("accountId not found in token")
         ELSE ValidateOK(t.AccountID)

\* JWTValidator.Validate
Validate(tokenString) == ValidateToken(DecodeToken(tokenString), skipVerify)

\* JWTValidator.Validate of the build without a skip mode
ValidateRSAOnly(t) ==
    IF ~ParseWithClaimsOK(t) THEN ValidateError("failed to parse token")
    ELSE IF MissingTenant(t.AccountID)
    THEN ValidateError("accountId not found in token")
    ELSE ValidateOK(t.AccountID)

\* CustomClaims.GetCustomerID
GetCustomerID(claims) ==
    IF claims.CustomerID # "" THEN claims.CustomerID
    ELSE IF claims.AccountID # 0 THEN ToString(claims.AccountID)
    ELSE ""

\* what validateJWT returns: nil claims on an error, the decoded claims
\* otherwise
JWTError(msg) == [err |-> msg, AccountID |-> 0, CustomerID |-> ""]
JWTClaims(t) ==
    [err |-> "", AccountID |-> t.AccountID, CustomerID |-> t.CustomerID]

\* a configuration of the proxy: InsecureSkipVerify, the kind of key that
\* NewAuthProxy loaded, AllowedIssuers, AllowedAudiences
ProxyConfig(skip, keyKind, issuers, audiences) ==
    [InsecureSkipVerify |-> skip, keyKind |-> keyKind,
     AllowedIssuers |-> issuers, AllowedAudiences |-> audiences]

\* AuthProxy.validateJWT
validateJWT(t, config) ==
    IF config.InsecureSkipVerify
    THEN IF ~t.parses THEN JWTError("failed to parse token")
         ELSE IF GetCustomerID(t) = ""
         THEN JWTError("customer_id or accountId not found in token")
         ELSE JWTClaims(t)
    ELSE IF ~ParseWithClaimsFor(t, config.keyKind)
    THEN JWTError("failed to parse token")
    ELSE IF Expired(t) THEN JWTError("token expired")
    ELSE IF /\ config.AllowedIssuers # {}
            /\ t.Issuer \notin config.AllowedIssuers
    THEN JWTError("invalid issuer")
    ELSE IF /\ config.AllowedAudiences # {}
            /\ Len(t.Audience) > 0
            /\ Range(t.Audience) \cap config.AllowedAudiences = {}
    THEN JWTError("invalid audience")
    ELSE IF GetCustomerID(t) = ""
    THEN JWTError("customer_id or accountId not found in token")
    ELSE JWTClaims(t)

\* faulty variant: the tenant id is not formatted
GetAccountIDEmpty(claims) == ""

\* Claims.GetAccountID
GetAccountID(claims) ==
    IF claims.AccountID # 0 THEN ToString(claims.AccountID) ELSE ""

(***************************************************************************)
(* The request gate and the logs handler.                                  *)
(***************************************************************************)
NoClaims == [err |-> "no claims", AccountID |-> 0]

\* http.StatusUnauthorized, http.StatusForbidden
StatusUnauthorized == 401
StatusForbidden == 403

\* faulty variant: a validation failure answered like a missing header
ValidationFailureStatusAsMissing == StatusUnauthorized

\* the status AuthMiddleware answers when Validate returns an error
ValidationFailureStatus == StatusForbidden

\* faulty variant: the scheme is not compared
BadSchemeLengthOnly(parts) == Len(parts) # 2

\* `len(parts) != 2 || strings.ToLower(parts[0]) != "bearer"`
BadScheme(parts) == Len(parts) # 2 \/ ToLower(parts[1]) # Chars("bearer")

\* faulty variant: the error of Validate is ignored and next is called
AfterValidateIgnoringError(v) ==
    [status |-> 0, validated |-> TRUE, claims |-> [v EXCEPT !.err = ""]]

\* AuthMiddleware after `claims, err := validator.Validate(...)`
AfterValidate(v) ==
    IF v.err # ""
    THEN [status |-> ValidationFailureStatus, validated |-> TRUE, claims |-> v]
    ELSE [status |-> 0, validated |-> TRUE, claims |-> v]

\* the gate after the header was split into parts
GateOnParts(authHeader, parts) ==
    IF authHeader = <<>>
    THEN [status |-> StatusUnauthorized, validated |-> FALSE,
          claims |-> NoClaims]
    ELSE IF BadScheme(parts)
    THEN [status |-> StatusUnauthorized, validated |-> FALSE,
          claims |-> NoClaims]
    ELSE AfterValidate(Validate(parts[2]))

\* AuthMiddleware up to the call of next: the status it answers (0 when it
\* calls next), whether Validate ran, and what Validate returned
AuthMiddleware(authHeader) == GateOnParts(authHeader, SplitN2(authHeader))

\* the build of AuthMiddleware that splits the header at every space
AuthMiddlewareSplit(authHeader) == GateOnParts(authHeader, Split(authHeader))

\* a request body: its kind and the number of log objects of its array.
\* "array" is a JSON array of n log objects, "trailing" such an array
\* followed by text that is not JSON, "null" the JSON value null, "object" a
\* JSON object, "malformed" text that starts no JSON value
Body(kind, n) == [kind |-> kind, n |-> n]

\* `json.NewDecoder(r.Body).Decode(&logs)` into a []map[string]interface{}:
\* the decoder reads the first JSON value of the stream and nothing after
\* it, and decodes null into the nil slice without an error
Decode(body) ==
    CASE body.kind \in {"array", "trailing"} -> [err |-> FALSE, n |-> body.n]
      [] body.kind = "null"                  -> [err |-> FALSE, n |-> 0]
      [] OTHER                               -> [err |-> TRUE, n |-> 0]

\* faulty variant: the method is not checked
MethodNotAllowedNever(method) == FALSE

\* `r.Method != http.MethodPost`
MethodNotAllowed(method) == method # "POST"

\* LogsHandler.ServeHTTP up to the call of StoreLogs: the status it answers
\* (0 when it calls StoreLogs) and the accountID it passes
ServeHTTP(method, claims, body) ==
    IF MethodNotAllowed(method) THEN [status |-> 405, accountID |-> NoCall]
    ELSE IF claims.err # ""
    THEN [status |-> StatusUnauthorized, accountID |-> NoCall]
    ELSE IF Decode(body).err THEN [status |-> 400, accountID |-> NoCall]
    ELSE [status |-> 0, accountID |-> GetAccountID(claims)]

\* the header "<scheme> <token>"
SchemeAndToken(scheme, token) == Chars(scheme) \o <<Space>> \o Chars(token)

\* the Authorization header values the server can be handed; net/http trims
\* the value, so none starts or ends with a space
Headers ==
    {<<>>, Chars("Bearer"), Chars("Basic"), Chars("tok42"),
     Chars("Bearer") \o Chars("tok42")}
    \cup {SchemeAndToken("Bearer", t) : t \in TokenNames}
    \cup {SchemeAndToken(s, "tok42") :
             s \in {"bearer", "BEARER", "bEaReR", "Basic"}}
    \cup {Chars("Bearer") \o <<Space, Space>> \o Chars("tok42"),
          SchemeAndToken("Bearer", "tok42") \o <<Space>> \o Chars("tok77"),
          SchemeAndToken("Bearer", "tok42") \o <<Space>> \o Chars("x")}

\* headers of the tokens that are accepted in some configuration
CoreHeaders ==
    {SchemeAndToken("Bearer", t) : t \in {"tok42", "tok77", "tokExpired"}}

Bodies ==
    {Body("malformed", 0), Body("object", 0), Body("null", 0),
     Body("trailing", 1)}
    \cup {Body("array", k) : k \in 0..MaxLogs}

\* a missing, a malformed, a rejected and an accepted header
OtherMethodHeaders ==
    {<<>>, SchemeAndToken("Basic", "tok42"),
     SchemeAndToken("Bearer", "tokBadSig"),
     SchemeAndToken("Bearer", "tok42")}

\* every header with one body, the accepted headers with every body, and
\* requests of another method
Requests ==
    [method : {"POST"}, header : Headers, body : {Body("array", 1)}]
    \cup [method : {"POST"}, header : CoreHeaders, body : Bodies]
    \cup [method : {"GET"}, header : OtherMethodHeaders,
          body : {Body("array", 1)}]

\* the requests handed to the build that splits at every space
SplitRequests == [method : {"POST"}, header : Headers, body : {Body("array", 1)}]

LogEntry(a, l) == [account_id |-> a, log_account_id |-> l]

\* what the k-th record submitted in a behaviour holds: the first two assert
\* tenant "77", the third the sentinel, the others assert nothing
RecordEntry(k) ==
    CASE k \in {1, 2} -> LogEntry(JString("77"), JString("77"))
      [] k = 3       -> LogEntry(JString(Sentinel), JString(Sentinel))
      [] OTHER       -> LogEntry(JAbsent, JAbsent)

\* time.Now().Format("2006.01.02") at the time of the bulk write
IndexDate == "2006.01.02"

\* bulkWrite: fmt.Sprintf("account-%s-logs-%s", accountID, date)
bulkIndexName(accountID) == "account-" \o accountID \o "-logs-" \o IndexDate

\* the body bulkWrite builds: one index for the whole batch, and each
\* record's "account_id" overwritten with the batch's accountID
bulkWriteBody(accountID, logs) ==
    [i \in 1..Len(logs) |->
        BulkItem(bulkIndexName(accountID),
                 [account_id |-> JString(accountID),
                  log_account_id |-> RecordEntry(logs[i]).log_account_id,
                  token_accountId |-> JAbsent,
                  log_accountId |-> JAbsent,
                  timestamp |-> TRUE])]

\* the credential tenants the synchronous builds are called with
SyncAccountIDs == AccountIDs \cup {Sentinel}

\* the values a record's tenant fields are submitted with
AssertedValues ==
    {JAbsent, JNull, JString(""), JString(Sentinel), JString("42"),
     JString("77"), JNumber(1000000), JNumber(77), JBool(TRUE), JArray1(1),
     JObject1(1), JArray1(1000000)}

\* records asserting the same tenant in both fields, or in one of them
LogEntries ==
    {LogEntry(v, v) : v \in AssertedValues}
    \cup {LogEntry(JString("77"), JAbsent), LogEntry(JAbsent, JString("77"))}

\* the arrays of at most n records
LogArrays(n) == UNION {[1..k -> LogEntries] : k \in 0..n}

\* the tenants a data-stream build can choose for a record
EffectiveAccounts ==
    {chooseAccountId(AccountOfValue(v), a) :
         v \in AssertedValues, a \in SyncAccountIDs}
    \cup {inlineEffectiveAccount(AccountOfValue(v), a) :
         v \in AssertedValues, a \in SyncAccountIDs}

\* the data streams the calls can address
Destinations == {dsName(a) : a \in EffectiveAccounts}

Init ==
    /\ pendingBatches = << >>
    /\ batchChan = <<>>
    /\ chanClosed = FALSE
    /\ ctxDone = FALSE
    /\ tickerStopped = FALSE
    /\ tickC = FALSE
    /\ workerPc = [w \in Workers |-> "select"]
    /\ workerBatch = [w \in Workers |-> NoBatch]
    /\ batcherPc = "select"
    /\ batchMutex = "unlocked"
    /\ flushing = [i \in Instances |-> NoFlushAll]
    /\ closePc = "idle"
    /\ nextId = 1
    /\ closeMark = 0
    /\ failedSend = {}
    /\ workerReq = [w \in Workers |-> "none"]
    /\ ret = [op |-> "none", result |-> "none", sends |-> 0]
    /\ skipVerify = FALSE
    /\ resp = NoResponse
    /\ serving = [c \in Callers |-> NoServing]
    /\ syncCall = [c \in Callers |-> NoSyncCall]
    /\ syncOut = [c \in Callers |-> NoSyncOut]
    /\ indexer = NewBulkIndexer
    /\ applied = NoApplication
    /\ esTemplates = {}
    /\ esStreams = {}
    /\ flush = [f \in Flushers |-> NoFlush]
    /\ flushCount = 0
    /\ ensured = {}
    /\ created = [d \in Destinations |-> 0]
    /\ writeLog = [w \in Workers |-> "none"]
    /\ otherChan = <<>>

\* faulty variant: the worker locks batchMutex before it calls bulkWrite
MutexInWorkerLocked(mutex) == "worker"

\* batchMutex once a worker has received a batch and is inside bulkWrite:
\* worker and bulkWrite contain no Lock, the mutex is as it was
MutexInWorker(mutex) == mutex

\* the effect of one StoreLogs call with n fresh records on the storage.
\* The call holds batchMutex from its Lock to its deferred Unlock; in
\* between it touches the map, which only the holder of the mutex reads,
\* and makes one non-blocking send, so the call is taken as one step at the
\* moment of the send, which needs the mutex to be unlocked.
CallStoreLogs(accountID, n) ==
    /\ nextId + n - 1 <= MaxRecords
    /\ n # 0 => batchMutex = "unlocked"
    /\ LET r == StoreLogs(accountID, NewLogs(n))
       IN /\ pendingBatches' = r.pend
          /\ batchChan' = r.chan
          /\ failedSend' = failedSend \cup r.failed
          /\ ret' = [op |-> "StoreLogs", result |-> r.ret, sends |-> r.sends]
    /\ nextId' = nextId + n
    /\ UNCHANGED <<chanClosed, ctxDone, tickerStopped, tickC, workerPc,
                   workerBatch, workerReq, batcherPc, batchMutex, flushing, closePc, closeMark>>

\* a direct call of LogStorage.StoreLogs
StoreLogsCall(accountID, n) ==
    /\ CallStoreLogs(accountID, n)
    /\ UNCHANGED notStorage

\* what the response records of the gate's outcome
GateResponse(g) ==
    [status |-> g.status, validated |-> g.validated,
     accepted |-> g.validated /\ g.claims.err = "",
     tenant |-> g.claims.AccountID, next |-> FALSE, stored |-> NoCall]

\* the status written after StoreLogs: 202 when it returned nil, 500 when it
\* returned an error, none (0) when it panicked and the server dropped the
\* connection
StatusAfterStore(result) ==
    CASE result = "nil"   -> 202
      [] result = "error" -> 500
      [] OTHER            -> 0

\* the handler, entered by goroutine c with `claims` in the request context:
\* up to the answer of a request it turns away, or up to the return of
\* StoreLogs, after which the answer is still to be written
Serve(c, req, claims, base) ==
    LET h == ServeHTTP(req.method, claims, req.body)
    IN IF h.status # 0
       THEN /\ resp' = [base EXCEPT !.status = h.status, !.next = TRUE]
            /\ UNCHANGED <<storageVars, serving>>
       ELSE /\ CallStoreLogs(h.accountID, Decode(req.body).n)
            /\ serving' = [serving EXCEPT ![c] =
                   [pc |-> "stored",
                    answer |-> [base EXCEPT
                                  !.status = StatusAfterStore(ret'.result),
                                  !.next = TRUE, !.stored = h.accountID]]]
            /\ UNCHANGED resp

\* a request whose gate outcome is g, served by goroutine c: answered by the
\* gate, or handed on
Handle(c, req, g) ==
    /\ serving[c].pc = "idle"
    /\ IF g.status # 0
       THEN /\ resp' = GateResponse(g)
            /\ UNCHANGED <<storageVars, serving>>
       ELSE Serve(c, req, g.claims, GateResponse(g))
    /\ UNCHANGED <<skipVerify, syncVars, pureVars, ensureVars, auxVars>>

\* one request to /logs: mux -> AuthMiddleware -> LogsHandler.ServeHTTP
HandleRequest(c, req) == Handle(c, req, AuthMiddleware(req.header))

\* the same request through the build that splits at every space
HandleRequestSplit(c, req) ==
    Handle(c, req, AuthMiddlewareSplit(req.header))

\* StoreLogs has returned to LogsHandler.ServeHTTP, which writes the answer:
\* 202, or 500 for an error
Respond(c) ==
    /\ serving[c].pc = "stored"
    /\ resp' = serving[c].answer
    /\ serving' = [serving EXCEPT ![c] = NoServing]
    /\ UNCHANGED <<storageVars, skipVerify, syncVars, pureVars, ensureVars,
                   auxVars>>

\* the goroutines that serve no request
IdleHandlers == {c \in Callers : serving[c].pc = "idle"}

\* the goroutine that takes the next request: the first idle one
NextHandler == CHOOSE c \in IdleHandlers : \A d \in IdleHandlers : c <= d

\* the answer of the request goroutine c serves: the one it is about to
\* write after StoreLogs, or else the one written last
AnswerOf(c) ==
    IF serving[c].pc = "stored" THEN serving[c].answer ELSE resp

\* the records of a request body of n log objects
SubmittedLogs(n) == [i \in 1..n |-> RecordEntry(i)]

\* StoreLogs of the bulk-indexer build is entered: nothing is handed over
\* yet; with no records the loop body never runs and the call returns nil
EnterStoreLogs(c, tokenAccountID, logs, http, base) ==
    /\ syncCall[c].pc = "idle"
    /\ syncCall' = [syncCall EXCEPT ![c] =
                        [pc |-> IF logs = <<>> THEN "returned" ELSE "add",
                         build |-> "indexer", accountID |-> tokenAccountID,
                         logs |-> logs, http |-> http, base |-> base]]
    /\ syncOut' = [syncOut EXCEPT ![c] =
                       [body |-> <<>>, sent |-> FALSE,
                        ret |-> IF logs = <<>> THEN "nil" ELSE "none"]]

\* one request to /logs of a server whose storage is the bulk-indexer build,
\* served by goroutine c: mux -> AuthMiddleware -> LogsHandler.ServeHTTP, up
\* to the answer of a request that is turned away, or up to the entry of
\* StoreLogs
HandleRequestIndexer(c, req) ==
    /\ LET g == AuthMiddleware(req.header)
           h == ServeHTTP(req.method, g.claims, req.body)
           logs == SubmittedLogs(Decode(req.body).n)
       IN IF g.status # 0
          THEN /\ resp' = GateResponse(g)
               /\ UNCHANGED <<syncCall, syncOut>>
          ELSE IF h.status # 0
          THEN /\ resp' = [GateResponse(g) EXCEPT !.status = h.status,
                                                  !.next = TRUE]
               /\ UNCHANGED <<syncCall, syncOut>>
          ELSE /\ EnterStoreLogs(c, h.accountID, logs, TRUE,
                                 [GateResponse(g) EXCEPT
                                     !.next = TRUE, !.stored = h.accountID])
               /\ UNCHANGED resp
    /\ UNCHANGED <<storageVars, skipVerify, serving, indexer, pureVars,
                   ensureVars, auxVars>>

\* StoreLogs has returned to LogsHandler.ServeHTTP, which writes the answer
RespondIndexer(c) ==
    /\ syncCall[c].pc = "returned"
    /\ syncCall[c].http
    /\ resp' = [syncCall[c].base EXCEPT
                   !.status = StatusAfterStore(syncOut[c].ret)]
    /\ syncCall' = [syncCall EXCEPT ![c] = NoSyncCall]
    /\ syncOut' = [syncOut EXCEPT ![c] = NoSyncOut]
    /\ UNCHANGED <<storageVars, skipVerify, serving, indexer, pureVars,
                   ensureVars, auxVars>>

\* LogsHandler.ServeHTTP entered with no claims in the request context
HandleWithoutClaims(c, method, body) ==
    /\ serving[c].pc = "idle"
    /\ Serve(c, [method |-> method, header |-> <<>>, body |-> body],
             NoClaims, NoResponse)
    /\ UNCHANGED <<skipVerify, syncVars, pureVars, ensureVars, auxVars>>

\* the runtime delivers a tick into flushTicker.C (dropped when one is buffered)
TickerFire ==
    /\ ~tickerStopped
    /\ ~tickC
    /\ tickC' = TRUE
    /\ UNCHANGED <<pendingBatches, batchChan, chanClosed, ctxDone,
                   tickerStopped, workerPc, workerBatch, batcherPc, batchMutex, flushing, closePc,
                   nextId, closeMark, failedSend, ret,
                   workerReq, notStorage>>

\* batcher: case <-es.flushTicker.C: the tick is received, which empties
\* the ticker's channel; the batcher is then at the Lock of flushAll
BatcherTick ==
    /\ batcherPc = "select"
    /\ tickC
    /\ tickC' = FALSE
    /\ batcherPc' = "flushAll"
    /\ flushing' = [flushing EXCEPT !["es"].pc = "lock"]
    /\ UNCHANGED <<pendingBatches, batchChan, chanClosed, ctxDone,
                   tickerStopped, workerPc, workerBatch, batchMutex, closePc,
                   nextId, closeMark, failedSend, ret, workerReq, notStorage>>

\* batcher: case <-es.ctx.Done(): the batcher is at the Lock of the
\* flushAll after which it returns
BatcherCtxDone ==
    /\ batcherPc = "select"
    /\ ctxDone
    /\ batcherPc' = "lastFlushAll"
    /\ flushing' = [flushing EXCEPT !["es"].pc = "lock"]
    /\ UNCHANGED <<pendingBatches, batchChan, chanClosed, ctxDone,
                   tickerStopped, tickC, workerPc, workerBatch, batchMutex,
                   closePc, nextId, closeMark, failedSend, ret, workerReq,
                   notStorage>>

\* the channel a storage instance sends its batches on
ChanOf(i) == IF i = "es" THEN batchChan ELSE otherChan

\* flushAll: batchMutex.Lock() returns; the range loop starts over the keys
\* the map holds now
flushAllLock(i) ==
    /\ flushing[i].pc = "lock"
    /\ batchMutex = "unlocked"
    /\ batchMutex' = i
    /\ flushing' = [flushing EXCEPT ![i].pc = "range",
                                    ![i].todo = DOMAIN pendingBatches]
    /\ UNCHANGED <<pendingBatches, batchChan, otherChan, failedSend>>

\* flushAll: one round of `for accountID, logs := range pendingBatches`, the
\* keys coming in any order: a slice that holds records is sent without
\* blocking; when the channel is full, "dropping batch" is logged
flushAllVisit(i, a) ==
    /\ flushing[i].pc = "range"
    /\ batchMutex = i
    /\ a \in flushing[i].todo
    /\ LET logs == pendingBatches[a]
           batch == [accountID |-> a, logs |-> logs]
       IN IF FlushEligible(logs) /\ SendSucceeds(ChanOf(i))
          THEN /\ IF i = "es"
                  THEN /\ batchChan' = Append(batchChan, batch)
                       /\ UNCHANGED otherChan
                  ELSE /\ otherChan' = Append(otherChan, batch)
                       /\ UNCHANGED batchChan
               /\ flushing' = [flushing EXCEPT ![i].pc = "delete",
                                               ![i].key = a,
                                               ![i].sent = @ \cup {a}]
               /\ UNCHANGED <<pendingBatches, failedSend>>
          ELSE IF FlushEligible(logs)
          THEN /\ pendingBatches' = LeftOnFull(pendingBatches, a)
               /\ failedSend' = failedSend \cup Range(logs)
               /\ flushing' = [flushing EXCEPT ![i].todo = @ \ {a},
                                               ![i].full = @ \cup {a}]
               /\ UNCHANGED <<batchChan, otherChan>>
          ELSE /\ flushing' = [flushing EXCEPT ![i].todo = @ \ {a}]
               /\ UNCHANGED <<pendingBatches, batchChan, otherChan,
                              failedSend>>
    /\ UNCHANGED batchMutex

\* flushAll: `delete(pendingBatches, accountID)` after the send
flushAllDelete(i) ==
    /\ flushing[i].pc = "delete"
    /\ batchMutex = i
    /\ pendingBatches' = MapDelete(pendingBatches, flushing[i].key)
    /\ flushing' = [flushing EXCEPT ![i].pc = "range",
                                    ![i].todo = @ \ {flushing[i].key},
                                    ![i].key = ""]
    /\ UNCHANGED <<batchMutex, batchChan, otherChan, failedSend>>

\* flushAll: the loop is over, the deferred Unlock runs, the call returns
flushAllReturn(i) ==
    /\ flushing[i].pc = "range"
    /\ batchMutex = i
    /\ flushing[i].todo = {}
    /\ batchMutex' = "unlocked"
    /\ flushing' = [flushing EXCEPT ![i] = NoFlushAll]
    /\ UNCHANGED <<pendingBatches, batchChan, otherChan, failedSend>>

\* what no step of a flushAll call touches
flushFrame ==
    <<chanClosed, ctxDone, tickerStopped, tickC, workerPc, workerBatch,
      workerReq, closePc, nextId, closeMark, ret, httpVars, syncVars,
      pureVars, ensureVars, writeLog>>

\* the steps of the flushAll the batcher called
BatcherFlushLock == flushAllLock("es") /\ UNCHANGED <<batcherPc, flushFrame>>

BatcherFlushVisit(a) ==
    flushAllVisit("es", a) /\ UNCHANGED <<batcherPc, flushFrame>>

BatcherFlushDelete == flushAllDelete("es") /\ UNCHANGED <<batcherPc, flushFrame>>

\* flushAll returns to the batcher: after a tick the batcher goes round to
\* its select, after <-es.ctx.Done() it returns
BatcherFlushReturn ==
    /\ flushAllReturn("es")
    /\ batcherPc' = IF batcherPc = "lastFlushAll" THEN "exited" ELSE "select"
    /\ UNCHANGED flushFrame

\* es.flushAll() in the batcher, step by step
BatcherFlushAll ==
    \/ BatcherFlushLock
    \/ \E a \in AccountIDs : BatcherFlushVisit(a)
    \/ BatcherFlushDelete
    \/ BatcherFlushReturn

\* worker: case batch := <-es.batchChan: es.bulkWrite(batch.accountID, batch.logs)
WorkerRecv(w) ==
    /\ workerPc[w] = "select"
    /\ batchChan # <<>>
    /\ workerBatch' = [workerBatch EXCEPT ![w] = Head(batchChan)]
    /\ batchChan' = Tail(batchChan)
    /\ batchMutex' = MutexInWorker(batchMutex)
    /\ workerPc' = [workerPc EXCEPT ![w] = "bulkWrite"]
    /\ workerReq' = [workerReq EXCEPT ![w] =
                        IF ctxDone THEN "cancelled" ELSE "live"]
    /\ UNCHANGED <<pendingBatches, chanClosed, ctxDone, tickerStopped, tickC,
                   batcherPc, flushing, closePc, nextId, closeMark, failedSend, ret,
                   notStorage>>

\* worker: case <-es.ctx.Done(): return
WorkerCtxDone(w) ==
    /\ workerPc[w] = "select"
    /\ ctxDone
    /\ workerPc' = [workerPc EXCEPT ![w] = "exited"]
    /\ UNCHANGED <<pendingBatches, batchChan, chanClosed, ctxDone,
                   tickerStopped, tickC, workerBatch, batcherPc, batchMutex, flushing, closePc,
                   nextId, closeMark, failedSend, ret,
                   workerReq, notStorage>>

\* the results bulkWrite can return: the request carries es.ctx, so a call
\* entered with the context cancelled fails in client.Do; a call entered
\* before returns what the backend answered, or fails when cancelled
bulkWriteResults(w) ==
    IF workerReq[w] = "cancelled" THEN {"error"} ELSE {"nil", "error"}

\* faulty variant: a worker whose bulkWrite failed returns from its loop
AfterBulkWriteStopOnError(result) ==
    IF result = "error" THEN "exited" ELSE "select"

\* worker: where the loop goes once bulkWrite has returned: the error is
\* logged and the `for` goes round to the select, whatever the result
AfterBulkWrite(result) == "select"

\* worker: bulkWrite returns, the worker goes back to its select
BulkWriteStep(w, result) ==
    /\ workerPc[w] = "bulkWrite"
    /\ result \in bulkWriteResults(w)
    /\ failedSend' = failedSend \ Range(workerBatch[w].logs)
    /\ workerBatch' = [workerBatch EXCEPT ![w] = NoBatch]
    /\ workerReq' = [workerReq EXCEPT ![w] = "none"]
    /\ workerPc' = [workerPc EXCEPT ![w] = AfterBulkWrite(result)]
    /\ UNCHANGED <<pendingBatches, batchChan, chanClosed, ctxDone,
                   tickerStopped, tickC, batcherPc, batchMutex, flushing, closePc, nextId,
                   closeMark, ret,
                   httpVars, syncVars, pureVars, ensureVars, otherChan>>

\* the same step with the process log not observed
BulkWriteReturn(w, result) ==
    /\ BulkWriteStep(w, result)
    /\ UNCHANGED writeLog

\* the same step with the process log observed: "Failed to write batch" is
\* printed when bulkWrite returned an error
BulkWriteLogged(w, result) ==
    /\ BulkWriteStep(w, result)
    /\ writeLog' = [writeLog EXCEPT ![w] = result]

\* Close: es.cancel()
CloseCancel ==
    /\ closePc = "idle"
    /\ ctxDone' = TRUE
    /\ closeMark' = nextId
    /\ closePc' = "stopTicker"
    /\ UNCHANGED <<pendingBatches, batchChan, chanClosed, tickerStopped,
                   tickC, workerPc, workerBatch, batcherPc, batchMutex, flushing, nextId,
                   failedSend, ret,
                   workerReq, notStorage>>

\* Close: es.flushTicker.Stop()
CloseStopTicker ==
    /\ closePc = "stopTicker"
    /\ tickerStopped' = TRUE
    /\ closePc' = "wait"
    /\ UNCHANGED <<pendingBatches, batchChan, chanClosed, ctxDone, tickC,
                   workerPc, workerBatch, batcherPc, batchMutex, flushing, nextId, closeMark,
                   failedSend, ret,
                   workerReq, notStorage>>

\* faulty variant: the workers are not counted by the wait group
WaitGroupDoneBatcherOnly == batcherPc = "exited"

\* es.wg.Wait() can return: every goroutine added in
\* NewElasticsearchStorage has run its deferred es.wg.Done()
WaitGroupDone ==
    /\ \A w \in Workers : workerPc[w] = "exited"
    /\ batcherPc = "exited"

\* Close: es.wg.Wait() returns, close(es.batchChan), return nil
CloseReturn ==
    /\ closePc = "wait"
    /\ WaitGroupDone
    /\ chanClosed' = TRUE
    /\ closePc' = "returned"
    /\ UNCHANGED <<pendingBatches, batchChan, ctxDone, tickerStopped, tickC,
                   workerPc, workerBatch, batcherPc, batchMutex, flushing, nextId, closeMark,
                   failedSend, ret,
                   workerReq, notStorage>>

\* StoreLogs of the bulk-indexer build called by goroutine c
StoreLogsIndexer(c, tokenAccountID, logs) ==
    /\ EnterStoreLogs(c, tokenAccountID, logs, FALSE, NoResponse)
    /\ UNCHANGED <<storageVars, httpVars, indexer, pureVars, ensureVars,
                   auxVars>>

\* `es.indexer.Add(ctx, item)` for the next record, the send branch of the
\* indexer's select: the item is handed to the queue, which has room; after
\* the last record the call returns nil
IndexerAdd(c) ==
    /\ syncCall[c].pc = "add"
    /\ ~indexer.closed
    /\ Len(indexer.queue) < IndexerNumWorkers
    /\ LET i == Len(syncOut[c].body) + 1
           item == BulkItemsIndexer(syncCall[c].accountID,
                                    syncCall[c].logs)[i]
           last == i = Len(syncCall[c].logs)
       IN /\ indexer' = [indexer EXCEPT !.queue = Append(@, item)]
          /\ syncOut' = [syncOut EXCEPT ![c] =
                             [body |-> Append(@.body, item), sent |-> TRUE,
                              ret |-> IF last THEN "nil" ELSE "none"]]
          /\ syncCall' = [syncCall EXCEPT ![c].pc =
                              IF last THEN "returned" ELSE "add"]
    /\ UNCHANGED <<storageVars, httpVars, pureVars, ensureVars, auxVars>>

\* `es.indexer.Add(ctx, item)`, the branch `<-ctx.Done()`: Add returns
\* ctx.Err() and StoreLogs returns it, the earlier items staying handed over
IndexerAddCtxDone(c) ==
    /\ syncCall[c].pc = "add"
    /\ syncCall' = [syncCall EXCEPT ![c].pc = "returned"]
    /\ syncOut' = [syncOut EXCEPT ![c].ret = "error"]
    /\ UNCHANGED <<storageVars, httpVars, indexer, pureVars, ensureVars,
                   auxVars>>

\* `es.indexer.Add(ctx, item)` after Close: the send on the closed queue
\* panics
IndexerAddClosed(c) ==
    /\ syncCall[c].pc = "add"
    /\ indexer.closed
    /\ syncCall' = [syncCall EXCEPT ![c].pc = "returned"]
    /\ syncOut' = [syncOut EXCEPT ![c].ret = "panic"]
    /\ UNCHANGED <<storageVars, httpVars, indexer, pureVars, ensureVars,
                   auxVars>>

\* a worker of the indexer receives the item at the head of the queue
IndexerWorkerTake ==
    /\ indexer.queue # <<>>
    /\ indexer' = [indexer EXCEPT !.queue = Tail(@)]
    /\ UNCHANGED <<storageVars, httpVars, syncCall, syncOut, pureVars,
                   ensureVars, auxVars>>

\* Close of the bulk-indexer build: `es.indexer.Close(ctx)` closes the queue
\* and waits for the workers
IndexerClose ==
    /\ ~indexer.closed
    /\ indexer' = [indexer EXCEPT !.closed = TRUE]
    /\ UNCHANGED <<storageVars, httpVars, syncCall, syncOut, pureVars,
                   ensureVars, auxVars>>

\* Close returns nil once the workers have drained the queue, or the
\* wrapped error of the indexer: the last flush failed, or the 10 s of the
\* context have passed, and then items may still be queued
IndexerCloseReturn(outcome) ==
    /\ indexer.closed
    /\ indexer.closeRet = "none"
    /\ outcome = "nil" => indexer.queue = <<>>
    /\ indexer' = [indexer EXCEPT !.closeRet = outcome]
    /\ UNCHANGED <<storageVars, httpVars, syncCall, syncOut, pureVars,
                   ensureVars, auxVars>>

\* the caller has the result; the storage keeps nothing of the call
SyncReturn(c) ==
    /\ syncCall[c].pc = "returned"
    /\ ~syncCall[c].http
    /\ syncCall' = [syncCall EXCEPT ![c] = NoSyncCall]
    /\ syncOut' = [syncOut EXCEPT ![c] = NoSyncOut]
    /\ UNCHANGED <<storageVars, httpVars, indexer, pureVars, ensureVars,
                   auxVars>>

\* the goroutines that are not inside StoreLogs of the bulk-indexer build
FreeCallers == {c \in Callers : syncCall[c].pc = "idle"}

\* the goroutine that takes the next call or request: the first free one
FirstFree == CHOOSE c \in FreeCallers : \A d \in FreeCallers : c <= d

\* the steps of the bulk indexer and of the calls that hand items to it
IndexerSteps ==
    \/ \E c \in Callers : IndexerAdd(c)
    \/ \E c \in Callers : IndexerAddCtxDone(c)
    \/ \E c \in Callers : IndexerAddClosed(c)
    \/ IndexerWorkerTake
    \/ IndexerClose
    \/ \E outcome \in {"nil", "error"} : IndexerCloseReturn(outcome)

Next ==
    \/ \E a \in AccountIDs, n \in 0..MaxLogs : StoreLogsCall(a, n)
    \/ TickerFire
    \/ BatcherTick
    \/ BatcherFlushLock
    \/ \E a \in AccountIDs : BatcherFlushVisit(a)
    \/ BatcherFlushDelete
    \/ BatcherFlushReturn
    \/ BatcherCtxDone
    \/ \E w \in Workers : WorkerRecv(w)
    \/ \E w \in Workers : WorkerCtxDone(w)
    \/ \E w \in Workers, res \in {"nil", "error"} : BulkWriteReturn(w, res)
    \/ CloseCancel
    \/ CloseStopTicker
    \/ CloseReturn

Spec == Init /\ [][Next]_vars

\* The scheduling the liveness of Close relies on: a goroutine that can take
\* a step takes one; a select with several ready cases picks among them at
\* random, so a worker whose <-es.ctx.Done() case is ready again and again
\* takes it eventually; every backend call returns.
Fairness ==
    /\ WF_vars(CloseStopTicker)
    /\ WF_vars(CloseReturn)
    /\ WF_vars(BatcherFlushAll)
    /\ WF_vars(BatcherCtxDone)
    /\ \A w \in Workers :
          /\ SF_vars(WorkerCtxDone(w))
          /\ WF_vars(\E res \in {"nil", "error"} : BulkWriteReturn(w, res))

SpecLive == Spec /\ Fairness

\* A second call of Close after the first has returned: es.cancel() and
\* es.flushTicker.Stop() have no further effect, es.wg.Wait() returns at
\* once (every goroutine has exited), and close(es.batchChan) runs on the
\* channel the first call closed, which panics.
CloseAgain ==
    /\ closePc = "returned"
    /\ ret.op # "Close"
    /\ WaitGroupDone
    /\ ret' = [op |-> "Close",
               result |-> IF chanClosed THEN "panic" ELSE "nil",
               sends |-> 0]
    /\ chanClosed' = TRUE
    /\ UNCHANGED <<pendingBatches, batchChan, ctxDone, tickerStopped, tickC,
                   workerPc, workerBatch, workerReq, batcherPc, batchMutex, flushing, closePc,
                   nextId, closeMark, failedSend, notStorage>>

\* the batching storage with Close called a second time
NextCloseTwice ==
    \/ Next
    \/ CloseAgain

SpecCloseTwice == Init /\ [][NextCloseTwice]_vars

\* largest element of a set of naturals, 0 for the empty set
SetMax(S) == IF S = {} THEN 0 ELSE CHOOSE x \in S : \A y \in S : y <= x

\* StoreLogs is called without end.  The numbers tell the records in the
\* storage apart; a record whose bulkWrite has returned is referred to by
\* nothing, so the numbers above those in the storage name the records of
\* the calls to come.
LaterRecords ==
    /\ SetMax(InFlight) + 1 < nextId
    /\ nextId' = SetMax(InFlight) + 1
    /\ failedSend' = failedSend \cap InFlight
    /\ UNCHANGED <<pendingBatches, batchChan, chanClosed, ctxDone,
                   tickerStopped, tickC, workerPc, workerBatch, workerReq,
                   batcherPc, batchMutex, flushing, closePc, closeMark, ret,
                   notStorage>>

\* The storage while no shutdown is requested.
NextRunning ==
    \/ \E a \in AccountIDs, n \in 0..MaxLogs : StoreLogsCall(a, n)
    \/ LaterRecords
    \/ TickerFire
    \/ BatcherTick
    \/ BatcherFlushLock
    \/ \E a \in AccountIDs : BatcherFlushVisit(a)
    \/ BatcherFlushDelete
    \/ BatcherFlushReturn
    \/ \E w \in Workers : WorkerRecv(w)
    \/ \E w \in Workers, res \in {"nil", "error"} : BulkWriteReturn(w, res)

\* The scheduling the flush relies on: the runtime delivers a tick every
\* flush interval, the batcher and the workers are scheduled when they can
\* take a step, and every backend call returns (the client has a timeout).
FairRunning ==
    /\ WF_vars(TickerFire)
    /\ WF_vars(BatcherTick)
    /\ WF_vars(BatcherFlushAll)
    /\ \A w \in Workers :
          /\ WF_vars(WorkerRecv(w))
          /\ WF_vars(\E res \in {"nil", "error"} : BulkWriteReturn(w, res))

SpecRunning == Init /\ [][NextRunning]_vars /\ FairRunning

\* A second ElasticsearchStorage built in the same process: its batcher
\* receives a tick of its own ticker and is at the Lock of flushAll.
\* flushAll ranges over the package-level pendingBatches under the
\* package-level batchMutex and sends on the instance's own batchChan.
OtherBatcherTick ==
    /\ flushing["other"].pc = "idle"
    /\ flushing' = [flushing EXCEPT !["other"].pc = "lock"]
    /\ UNCHANGED <<pendingBatches, batchChan, otherChan, failedSend,
                   batchMutex, batcherPc, flushFrame>>

\* the steps of the flushAll the second instance's batcher called
OtherFlushLock == flushAllLock("other") /\ UNCHANGED <<batcherPc, flushFrame>>

OtherFlushVisit(a) ==
    flushAllVisit("other", a) /\ UNCHANGED <<batcherPc, flushFrame>>

OtherFlushDelete == flushAllDelete("other") /\ UNCHANGED <<batcherPc, flushFrame>>

OtherFlushReturn == flushAllReturn("other") /\ UNCHANGED <<batcherPc, flushFrame>>

\* es.flushAll() in the second instance's batcher, step by step
OtherFlushAll ==
    \/ OtherFlushLock
    \/ \E a \in AccountIDs : OtherFlushVisit(a)
    \/ OtherFlushDelete
    \/ OtherFlushReturn

\* a worker of the second instance receives a batch of its batchChan and
\* writes it
OtherWorkerRecv ==
    /\ otherChan # <<>>
    /\ otherChan' = Tail(otherChan)
    /\ UNCHANGED <<storageVars, httpVars, syncVars, pureVars, ensureVars,
                   writeLog>>

\* two storage instances in one process, neither closed; StoreLogs is called
\* on the first only
NextInstances ==
    \/ \E a \in AccountIDs, n \in 0..MaxLogs : StoreLogsCall(a, n)
    \/ TickerFire
    \/ BatcherTick
    \/ BatcherFlushLock
    \/ \E a \in AccountIDs : BatcherFlushVisit(a)
    \/ BatcherFlushDelete
    \/ BatcherFlushReturn
    \/ \E w \in Workers : WorkerRecv(w)
    \/ \E w \in Workers, res \in {"nil", "error"} : BulkWriteReturn(w, res)
    \/ OtherBatcherTick
    \/ OtherFlushLock
    \/ \E a \in AccountIDs : OtherFlushVisit(a)
    \/ OtherFlushDelete
    \/ OtherFlushReturn
    \/ OtherWorkerRecv

SpecInstances == Init /\ [][NextInstances]_vars

\* the batching storage with the workers' log observed
NextWorker ==
    \/ \E a \in AccountIDs, n \in 0..MaxLogs : StoreLogsCall(a, n)
    \/ TickerFire
    \/ BatcherTick
    \/ BatcherFlushLock
    \/ \E a \in AccountIDs : BatcherFlushVisit(a)
    \/ BatcherFlushDelete
    \/ BatcherFlushReturn
    \/ BatcherCtxDone
    \/ \E w \in Workers : WorkerRecv(w)
    \/ \E w \in Workers : WorkerCtxDone(w)
    \/ \E w \in Workers, res \in {"nil", "error"} : BulkWriteLogged(w, res)
    \/ CloseCancel
    \/ CloseStopTicker
    \/ CloseReturn

SpecWorker == Init /\ [][NextWorker]_vars

(***************************************************************************)
(* The HTTP front: requests through the gate and the handler into the      *)
(* storage, under either validator configuration.  Requests are served by  *)
(* goroutines of their own; each writes its answer after its StoreLogs     *)
(* call has returned, so the stores and the answers of other requests can  *)
(* fall between.  The goroutines of the storage are not scheduled, so the  *)
(* channel fills.                                                          *)
(***************************************************************************)
InitGate ==
    /\ pendingBatches = << >>
    /\ batchChan = <<>>
    /\ chanClosed = FALSE
    /\ ctxDone = FALSE
    /\ tickerStopped = FALSE
    /\ tickC = FALSE
    /\ workerPc = [w \in Workers |-> "select"]
    /\ workerBatch = [w \in Workers |-> NoBatch]
    /\ workerReq = [w \in Workers |-> "none"]
    /\ batcherPc = "select"
    /\ batchMutex = "unlocked"
    /\ flushing = [i \in Instances |-> NoFlushAll]
    /\ closePc = "idle"
    /\ nextId = 1
    /\ closeMark = 0
    /\ failedSend = {}
    /\ ret = [op |-> "none", result |-> "none", sends |-> 0]
    /\ skipVerify \in BOOLEAN
    /\ resp = NoResponse
    /\ serving = [c \in Callers |-> NoServing]
    /\ syncCall = [c \in Callers |-> NoSyncCall]
    /\ syncOut = [c \in Callers |-> NoSyncOut]
    /\ indexer = NewBulkIndexer
    /\ applied = NoApplication
    /\ esTemplates = {}
    /\ esStreams = {}
    /\ flush = [f \in Flushers |-> NoFlush]
    /\ flushCount = 0
    /\ ensured = {}
    /\ created = [d \in Destinations |-> 0]
    /\ writeLog = [w \in Workers |-> "none"]
    /\ otherChan = <<>>

NextGate ==
    \/ /\ IdleHandlers # {}
       /\ \E req \in Requests : HandleRequest(NextHandler, req)
    \/ /\ IdleHandlers # {}
       /\ \E req \in SplitRequests : HandleRequestSplit(NextHandler, req)
    \/ /\ IdleHandlers # {}
       /\ \E m \in {"POST", "GET"}, b \in Bodies :
             HandleWithoutClaims(NextHandler, m, b)
    \/ \E c \in Callers : Respond(c)

SpecGate == InitGate /\ [][NextGate]_vars

(***************************************************************************)
(* The HTTP front of a server whose storage is the bulk-indexer build.     *)
(***************************************************************************)
NextGateIndexer ==
    \/ /\ FreeCallers # {}
       /\ \E req \in Requests : HandleRequestIndexer(FirstFree, req)
    \/ IndexerSteps
    \/ \E c \in Callers : RespondIndexer(c)

SpecGateIndexer == InitGate /\ [][NextGateIndexer]_vars

(***************************************************************************)
(* The tenant resolvers applied on their own to pairs of strings.          *)
(***************************************************************************)
\* the asserted tenants the resolvers are applied to
ResolverLogAccounts ==
    {"", Sentinel, "42", "77", "0", "1000001", "tenant-a", " "}

\* the credential tenants the resolvers are applied to
ResolverTokenAccounts == {"", Sentinel, "42", "77", "tenant-a"}

\* one application of a resolver: its arguments and what it returned
Resolved(fn, logAccount, tokenAccount, out) ==
    [fn |-> fn, logAccount |-> logAccount, tokenAccount |-> tokenAccount,
     out |-> out]

\* a pure function is applied and its result kept
Apply(application) ==
    /\ applied' = application
    /\ UNCHANGED <<storageVars, httpVars, syncVars, ensureVars, auxVars>>

ApplyChooseAccountId(logAccount, tokenAccount) ==
    Apply(Resolved("chooseAccountId", logAccount, tokenAccount,
                   chooseAccountId(logAccount, tokenAccount)))

ApplyChooseEffectiveAccountID(logAccountID, tokenAccountID) ==
    Apply(Resolved("chooseEffectiveAccountID", logAccountID, tokenAccountID,
                   chooseEffectiveAccountID(logAccountID, tokenAccountID)))

ApplyInlineEffectiveAccount(logAccount, accountID) ==
    Apply(Resolved("inlineEffectiveAccount", logAccount, accountID,
                   inlineEffectiveAccount(logAccount, accountID)))

\* the caller has the result
ApplyReturn ==
    /\ applied # NoApplication
    /\ applied' = NoApplication
    /\ UNCHANGED <<storageVars, httpVars, syncVars, ensureVars, auxVars>>

\* no application is in progress
ApplyIdle == applied = NoApplication

NextResolver ==
    \/ /\ ApplyIdle
       /\ \E y \in ResolverLogAccounts, x \in ResolverTokenAccounts :
             ApplyChooseAccountId(y, x)
    \/ /\ ApplyIdle
       /\ \E y \in ResolverLogAccounts, x \in ResolverTokenAccounts :
             ApplyChooseEffectiveAccountID(y, x)
    \/ /\ ApplyIdle
       /\ \E y \in ResolverLogAccounts, x \in ResolverTokenAccounts :
             ApplyInlineEffectiveAccount(y, x)
    \/ ApplyReturn

SpecResolver == Init /\ [][NextResolver]_vars

(***************************************************************************)
(* The token validators applied on their own to decoded tokens.            *)
(***************************************************************************)
\* the exp claims of the tokens: absent, one minute ago, the time of
\* validation, in one minute
Expiries == {<<FALSE, 0>>, <<TRUE, -60>>, <<TRUE, 0>>, <<TRUE, 60>>}

\* the tokens the validators are applied to
Tokens ==
    {Unparsable} \cup
    {[Token(TRUE, alg, sigOK, e[1], e[2], accountId) EXCEPT
          !.CustomerID = customerId, !.Issuer = iss, !.Audience = aud,
          !.notYetValid = nbf] :
        alg \in {"RS256", "HS256", "PS256", "none"}, sigOK \in BOOLEAN,
        e \in Expiries, accountId \in {0, 42}, customerId \in {"", "cust"},
        iss \in {"akto", "evil"}, aud \in {<<>>, <<"logs">>, <<"other">>},
        nbf \in BOOLEAN}

\* the configurations of the proxy
ProxyConfigs ==
    {ProxyConfig(skip, keyKind, issuers, audiences) :
        skip \in BOOLEAN, keyKind \in {"rsa", "hmac"},
        issuers \in {{}, {"akto"}}, audiences \in {{}, {"logs"}}}

\* one application of a validator: the token, the configuration of the
\* validator and what it returned
Validated(fn, token, config, out) ==
    [fn |-> fn, token |-> token, config |-> config, out |-> out]

\* the configuration of a JWTValidator: skipVerify and its RSA public key
ValidatorConfig(skip) == ProxyConfig(skip, "rsa", {}, {})

ApplyValidate(t, skip) ==
    Apply(Validated("Validate", t, ValidatorConfig(skip),
                    ValidateToken(t, skip)))

ApplyValidateRSAOnly(t) ==
    Apply(Validated("ValidateRSAOnly", t, ValidatorConfig(FALSE),
                    ValidateRSAOnly(t)))

ApplyValidateJWT(t, config) ==
    Apply(Validated("validateJWT", t, config, validateJWT(t, config)))

NextValidate ==
    \/ ApplyIdle /\ \E t \in Tokens, skip \in BOOLEAN : ApplyValidate(t, skip)
    \/ ApplyIdle /\ \E t \in Tokens : ApplyValidateRSAOnly(t)
    \/ ApplyIdle /\ \E t \in Tokens, config \in ProxyConfigs :
          ApplyValidateJWT(t, config)
    \/ ApplyReturn

SpecValidate == Init /\ [][NextValidate]_vars

(***************************************************************************)
(* The response handling of the synchronous bulk requests, applied on its  *)
(* own to every response.                                                  *)
(***************************************************************************)
\* what a bulk round trip yields: an error of the client, or a status with a
\* body that decodes or not and whose "errors" field tells whether items
\* were rejected
BulkResponse(err, status, decodes, errors) ==
    [err |-> err, status |-> status, decodes |-> decodes, errors |-> errors]

BulkResponses ==
    {BulkResponse(TRUE, 0, FALSE, FALSE)} \cup
    {BulkResponse(FALSE, status, decodes, errors) :
        status \in {200, 201, 400, 413, 429, 500, 503},
        decodes \in BOOLEAN, errors \in BOOLEAN}

\* esapi.Response.IsError
IsError(status) == status > 299

\* what the handling of a response leaves behind: the error returned, the
\* bulk requests sent, and whether item failures were logged
BulkHandled(result, requests, logged) ==
    [ret |-> result, requests |-> requests, logged |-> logged]

\* faulty variant: rejected items make the call fail
bulkRequestHandlerStrict(r) ==
    IF r.err THEN BulkHandled("error", 1, FALSE)
    ELSE IF IsError(r.status) THEN BulkHandled("error", 1, FALSE)
    ELSE IF r.decodes /\ r.errors THEN BulkHandled("error", 1, TRUE)
    ELSE BulkHandled("nil", 1, FALSE)

\* bulkRequestHandler
bulkRequestHandler(r) ==
    IF r.err THEN BulkHandled("error", 1, FALSE)
    ELSE IF IsError(r.status) THEN BulkHandled("error", 1, FALSE)
    ELSE IF ~r.decodes THEN BulkHandled("nil", 1, FALSE)
    ELSE IF r.errors THEN BulkHandled("nil", 1, TRUE)
    ELSE BulkHandled("nil", 1, FALSE)

\* StoreLogs of the build that sends one bulk request through esapi
StoreLogsEsapi(n, r) ==
    IF n = 0 THEN BulkHandled("nil", 0, FALSE) ELSE bulkRequestHandler(r)

\* StoreLogs of the synchronous build that sends the bulk request itself
StoreLogsDirect(n, r) ==
    IF n = 0 THEN BulkHandled("nil", 0, FALSE)
    ELSE IF r.err THEN BulkHandled("error", 1, FALSE)
    ELSE IF r.status < 200 \/ r.status >= 300
    THEN BulkHandled("error", 1, FALSE)
    ELSE IF ~r.decodes THEN BulkHandled("nil", 1, FALSE)
    ELSE IF r.errors THEN BulkHandled("nil", 1, TRUE)
    ELSE BulkHandled("nil", 1, FALSE)

\* one call of StoreLogs: the number of logs, the response of the backend
\* and what the call left behind
BulkCalled(fn, accountID, n, response, out) ==
    [fn |-> fn, accountID |-> accountID, n |-> n, response |-> response,
     out |-> out]

ApplyStoreLogsEsapi(accountID, n, r) ==
    Apply(BulkCalled("StoreLogsEsapi", accountID, n, r, StoreLogsEsapi(n, r)))

ApplyStoreLogsDirect(accountID, n, r) ==
    Apply(BulkCalled("StoreLogsDirect", accountID, n, r,
                     StoreLogsDirect(n, r)))

NextBulk ==
    \/ ApplyIdle /\ \E a \in AccountIDs, n \in 0..MaxLogs, r \in BulkResponses :
          ApplyStoreLogsEsapi(a, n, r)
    \/ ApplyIdle /\ \E a \in AccountIDs, n \in 0..MaxLogs, r \in BulkResponses :
          ApplyStoreLogsDirect(a, n, r)
    \/ ApplyReturn

SpecBulk == Init /\ [][NextBulk]_vars

(***************************************************************************)
(* The flush path of the data-stream builds: concurrent StoreLogs calls,   *)
(* each building its body, provisioning the data streams of the body one   *)
(* round trip at a time, and then sending the bulk request.                *)
(***************************************************************************)
\* what the steps of the flush path leave alone
notEnsure == <<storageVars, httpVars, syncVars, pureVars, auxVars>>

\* the call returns err
FlushFailed(f) == [flush[f] EXCEPT !.pc = "returned", !.ret = "error"]

\* the loop over dsSet is done with the stream at the head of todo; the
\* loop goes on, or the bulk request is next
FlushAdvance(fl) ==
    [fl EXCEPT !.todo = Tail(fl.todo),
               !.pc = IF Len(fl.todo) = 1 THEN "bulk" ELSE "checkTemplate"]

\* StoreLogs is called: the body is built, and the range over dsSet starts
\* in one of its orders
FlushStart(f, build, accountID, logs) ==
    /\ flush[f].pc = "idle"
    /\ flushCount < MaxFlushes
    /\ flushCount' = flushCount + 1
    /\ LET body == BodyOf(build, accountID, logs)
           called == [NoFlush EXCEPT !.build = build,
                                     !.accountID = accountID,
                                     !.logs = logs]
       IN \E order \in SetOrders(dsSetOf(body)) :
             flush' = [flush EXCEPT ![f] =
                IF logs = <<>>
                THEN [called EXCEPT !.pc = "returned", !.ret = "nil"]
                ELSE [called EXCEPT !.pc = "checkTemplate",
                                    !.body = body,
                                    !.todo = order,
                                    !.addressed = Range(order)]]
    /\ UNCHANGED <<esTemplates, esStreams, ensured, created, notEnsure>>

\* ensureDataStreamExists: checkIndexTemplateExists
CheckTemplate(f, outcome) ==
    /\ flush[f].pc = "checkTemplate"
    /\ flush[f].build = "dataStream"
    /\ LET d == Head(flush[f].todo)
           r == checkExists(outcome, d \in esTemplates)
       IN /\ flush' = [flush EXCEPT ![f] =
                IF r.err THEN FlushFailed(f)
                ELSE IF r.exists
                THEN [@ EXCEPT !.pc = "checkStream",
                               !.confirmed =
                                   IF HeadStatus(outcome, d \in esTemplates)
                                          = 200
                                   THEN @ \cup {<<d, "template">>} ELSE @]
                ELSE [@ EXCEPT !.pc = "createTemplate"]]
    /\ UNCHANGED <<esTemplates, esStreams, flushCount, ensured, created,
                   notEnsure>>

\* ensureDataStreamExists: createIndexTemplate
CreateTemplate(f, outcome) ==
    /\ flush[f].pc = "createTemplate"
    /\ flush[f].build = "dataStream"
    /\ LET d == Head(flush[f].todo)
       IN IF createIndexTemplate(outcome) = "nil"
          THEN /\ esTemplates' = esTemplates \cup {d}
               /\ flush' = [flush EXCEPT ![f] =
                     [@ EXCEPT !.pc = "checkStream",
                               !.confirmed = @ \cup {<<d, "template">>}]]
          ELSE /\ flush' = [flush EXCEPT ![f] = FlushFailed(f)]
               /\ UNCHANGED esTemplates
    /\ UNCHANGED <<esStreams, flushCount, ensured, created, notEnsure>>

\* ensureDataStreamExists: checkDataStreamExists
CheckStream(f, outcome) ==
    /\ flush[f].pc = "checkStream"
    /\ flush[f].build = "dataStream"
    /\ LET d == Head(flush[f].todo)
           r == checkExists(outcome, d \in esStreams)
       IN /\ flush' = [flush EXCEPT ![f] =
                IF r.err THEN FlushFailed(f)
                ELSE IF r.exists
                THEN [@ EXCEPT !.pc = "kibana",
                               !.confirmed =
                                   IF HeadStatus(outcome, d \in esStreams)
                                          = 200
                                   THEN @ \cup {<<d, "stream">>} ELSE @]
                ELSE [@ EXCEPT !.pc = "createStream"]]
    /\ UNCHANGED <<esTemplates, esStreams, flushCount, ensured, created,
                   notEnsure>>

\* ensureDataStreamExists: createDataStream
CreateStream(f, outcome) ==
    /\ flush[f].pc = "createStream"
    /\ flush[f].build = "dataStream"
    /\ LET d == Head(flush[f].todo)
           present == d \in esStreams
           status == PutStreamStatus(outcome, present)
           answered == outcome # "err"
           issued == [flush[f] EXCEPT !.issued = @ \cup {d}]
       IN /\ esStreams' = IF answered /\ status = 200
                          THEN esStreams \cup {d} ELSE esStreams
          /\ created' = IF answered /\ status = 200
                        THEN [created EXCEPT ![d] = @ + 1] ELSE created
          /\ flush' = [flush EXCEPT ![f] =
                IF createDataStream(outcome, present) = "error"
                THEN [issued EXCEPT !.pc = "returned", !.ret = "error"]
                ELSE [issued EXCEPT !.pc = "kibana",
                                    !.confirmed =
                                        IF answered /\ status \in {200, 400}
                                        THEN @ \cup {<<d, "stream">>}
                                        ELSE @]]
    /\ UNCHANGED <<esTemplates, flushCount, ensured, notEnsure>>

\* the earlier build, HEAD /_index_template: an error of client.Do is
\* returned; 404 leads to the PUT of the template, any other status to the
\* PUT of the data stream
InlineCheckTemplate(f, outcome) ==
    /\ flush[f].pc = "checkTemplate"
    /\ flush[f].build = "inline"
    /\ LET d == Head(flush[f].todo)
           status == HeadStatus(outcome, d \in esTemplates)
       IN flush' = [flush EXCEPT ![f] =
             IF outcome = "err" THEN FlushFailed(f)
             ELSE IF status = 404 THEN [@ EXCEPT !.pc = "createTemplate"]
             ELSE [@ EXCEPT !.pc = "createStream",
                            !.confirmed =
                                IF status = 200
                                THEN @ \cup {<<d, "template">>} ELSE @]]
    /\ UNCHANGED <<esTemplates, esStreams, flushCount, ensured, created,
                   notEnsure>>

\* the earlier build, PUT /_index_template: an error of client.Do is logged
\* and the loop continues with the next data stream; a status outside 2xx is
\* logged and the PUT of the data stream follows
InlineCreateTemplate(f, outcome) ==
    /\ flush[f].pc = "createTemplate"
    /\ flush[f].build = "inline"
    /\ LET d == Head(flush[f].todo)
           made == outcome # "err" /\ PutTemplateStatus(outcome) \in 200..299
       IN /\ esTemplates' = IF made THEN esTemplates \cup {d}
                            ELSE esTemplates
          /\ flush' = [flush EXCEPT ![f] =
                IF outcome = "err" THEN FlushAdvance(@)
                ELSE [@ EXCEPT !.pc = "createStream",
                               !.confirmed =
                                   IF made THEN @ \cup {<<d, "template">>}
                                   ELSE @]]
    /\ UNCHANGED <<esStreams, flushCount, ensured, created, notEnsure>>

\* the earlier build, PUT /_data_stream: an error of client.Do is logged and
\* the loop continues with the next data stream; every answer, whatever its
\* status, is followed by the Kibana call
InlineCreateStream(f, outcome) ==
    /\ flush[f].pc = "createStream"
    /\ flush[f].build = "inline"
    /\ LET d == Head(flush[f].todo)
           present == d \in esStreams
           status == PutStreamStatus(outcome, present)
           answered == outcome # "err"
       IN /\ esStreams' = IF answered /\ status = 200
                          THEN esStreams \cup {d} ELSE esStreams
          /\ created' = IF answered /\ status = 200
                        THEN [created EXCEPT ![d] = @ + 1] ELSE created
          /\ flush' = [flush EXCEPT ![f] =
                IF ~answered
                THEN FlushAdvance([@ EXCEPT !.issued = @ \cup {d}])
                ELSE [@ EXCEPT !.pc = "kibana",
                               !.issued = @ \cup {d},
                               !.confirmed =
                                   IF status \in {200, 400}
                                   THEN @ \cup {<<d, "stream">>} ELSE @]]
    /\ UNCHANGED <<esTemplates, flushCount, ensured, notEnsure>>

\* createKibanaIndexPattern: the POST to Kibana has returned; the function
\* returns nothing and its outcome is only logged.  In the later build
\* ensureDataStreamExists returns nil after it
createKibanaIndexPattern(f) ==
    /\ flush[f].pc = "kibana"
    /\ flush' = [flush EXCEPT ![f] = FlushAdvance(@)]
    /\ ensured' = IF flush[f].build = "dataStream"
                  THEN ensured \cup {Head(flush[f].todo)} ELSE ensured
    /\ UNCHANGED <<esTemplates, esStreams, flushCount, created, notEnsure>>

\* StoreLogs: the bulk request
SendBulk(f, outcome) ==
    /\ flush[f].pc = "bulk"
    /\ flush' = [flush EXCEPT ![f] =
                   [@ EXCEPT !.pc = "returned", !.sent = TRUE,
                             !.ret = bulkResult(outcome)]]
    /\ UNCHANGED <<esTemplates, esStreams, flushCount, ensured, created,
                   notEnsure>>

\* the caller has the result of StoreLogs
FlushReturn(f) ==
    /\ flush[f].pc = "returned"
    /\ flush' = [flush EXCEPT ![f] = NoFlush]
    /\ UNCHANGED <<esTemplates, esStreams, flushCount, ensured, created,
                   notEnsure>>

\* records asserting one tenant each
EnsureLogEntries ==
    {LogEntry(JString(a), JAbsent) : a \in AccountIDs}

\* the arrays the concurrent calls are made with: at most one record for
\* each tenant, in either order
EnsureLogArrays == UNION {SetOrders(S) : S \in SUBSET EnsureLogEntries}

\* the builds that provision data streams
DataStreamBuilds == {"dataStream", "inline"}

\* concurrent calls of the data-stream builds by the caller of tenant "42",
\* against one backend
NextEnsure ==
    \/ \E f \in Flushers, build \in DataStreamBuilds,
          logs \in EnsureLogArrays : FlushStart(f, build, "42", logs)
    \/ \E f \in Flushers, outcome \in RoundTrips : CheckTemplate(f, outcome)
    \/ \E f \in Flushers, outcome \in RoundTrips : CreateTemplate(f, outcome)
    \/ \E f \in Flushers, outcome \in RoundTrips : CheckStream(f, outcome)
    \/ \E f \in Flushers, outcome \in RoundTrips : CreateStream(f, outcome)
    \/ \E f \in Flushers, outcome \in RoundTrips :
          InlineCheckTemplate(f, outcome)
    \/ \E f \in Flushers, outcome \in RoundTrips :
          InlineCreateTemplate(f, outcome)
    \/ \E f \in Flushers, outcome \in RoundTrips :
          InlineCreateStream(f, outcome)
    \/ \E f \in Flushers : createKibanaIndexPattern(f)
    \/ \E f \in Flushers, outcome \in RoundTrips : SendBulk(f, outcome)
    \/ \E f \in Flushers : FlushReturn(f)

SpecEnsure == Init /\ [][NextEnsure]_vars

(***************************************************************************)
(* The builds that write in the caller's goroutine.  A process runs one    *)
(* build: either a data-stream build is followed through one call made     *)
(* with every record, against a backend that holds nothing and answers     *)
(* every round trip in every way, or the bulk-indexer build is followed    *)
(* through calls made one after the other while the indexer's workers      *)
(* drain its queue and Close may be called.  (Calls that run together are  *)
(* those of SpecEnsure and of SpecGateIndexer.)                            *)
(***************************************************************************)
\* no call of the bulk-indexer build is in progress
SyncIdle == \A c \in Callers : syncCall[c].pc = "idle"

\* no call of a data-stream build is in progress
FlushIdle == \A f \in Flushers : flush[f].pc = "idle"

NextSync ==
    \/ /\ SyncIdle /\ FlushIdle /\ flushCount = 0
       /\ indexer = NewBulkIndexer
       /\ \E build \in DataStreamBuilds, a \in SyncAccountIDs,
             logs \in LogArrays(MaxSyncLogs) :
                FlushStart(1, build, a, logs)
    \/ \E f \in Flushers, outcome \in RoundTrips : CheckTemplate(f, outcome)
    \/ \E f \in Flushers, outcome \in RoundTrips : CreateTemplate(f, outcome)
    \/ \E f \in Flushers, outcome \in RoundTrips : CheckStream(f, outcome)
    \/ \E f \in Flushers, outcome \in RoundTrips : CreateStream(f, outcome)
    \/ \E f \in Flushers, outcome \in RoundTrips :
          InlineCheckTemplate(f, outcome)
    \/ \E f \in Flushers, outcome \in RoundTrips :
          InlineCreateTemplate(f, outcome)
    \/ \E f \in Flushers, outcome \in RoundTrips :
          InlineCreateStream(f, outcome)
    \/ \E f \in Flushers : createKibanaIndexPattern(f)
    \/ \E f \in Flushers, outcome \in RoundTrips : SendBulk(f, outcome)
    \/ \E f \in Flushers : FlushReturn(f)
    \/ /\ SyncIdle /\ FlushIdle /\ flushCount = 0
       /\ \E a \in SyncAccountIDs, logs \in LogArrays(MaxSyncLogs) :
             StoreLogsIndexer(FirstFree, a, logs)
    \/ /\ FlushIdle /\ flushCount = 0
       /\ IndexerSteps
    \/ \E c \in Callers : SyncReturn(c)

SpecSync == Init /\ [][NextSync]_vars

(***************************************************************************)
(* Properties of the batching storage (checked under Spec).                *)
(***************************************************************************)
\* the records StoreLogs accepted before Close was called
AcceptedBeforeClose == 1..(closeMark - 1)

\* the number of records pending, whichever tenant enqueued them
TotalPending == Cardinality(PendingRecords)

\* the keys of pendingBatches that hold records
PendingAccounts == {a \in DOMAIN pendingBatches : Len(pendingBatches[a]) > 0}

\* the batches queued on batchChan
QueuedBatches == {batchChan[i] : i \in 1..Len(batchChan)}

\* C1 (as claimed): when Close has returned, no record accepted before Close
\* was called is left in pendingBatches or unread in batchChan: each was
\* passed to bulkWrite by a worker.
C1_ShutdownDrain ==
    closePc = "returned" =>
        \A r \in AcceptedBeforeClose :
            r \notin PendingRecords /\ r \notin QueuedRecords

\* C2 (as claimed): in every reachable state a StoreLogs call can complete
\* as soon as batchMutex is unlocked (whatever the channel and the workers
\* do), and every completed call made at most one send attempt and returned
\* nil.
C2_NonBlockingEnqueue ==
    /\ \A a \in AccountIDs, n \in 0..MaxLogs :
          (nextId + n - 1 <= MaxRecords /\ batchMutex = "unlocked")
              => ENABLED StoreLogsCall(a, n)
    /\ ret.op = "StoreLogs" => ret.result = "nil" /\ ret.sends <= 1

\* C3 (as claimed): the records of a hand-off whose non-blocking send failed
\* are dropped: they are not in the pending buffer afterwards, and no bulk
\* write that returns nil contains them.
C3_DropOnFull ==
    [][/\ failedSend' \cap PendingRecords' = {}
       /\ \A w \in Workers :
             BulkWriteReturn(w, "nil") =>
                 Range(workerBatch[w].logs) \cap failedSend = {}]_vars

\* C4 (as claimed): a StoreLogs call that brings the number of pending
\* records, counted over all tenants, to the threshold or above makes a
\* hand-off within the call.
C4_ThresholdFlushAllTenants ==
    [][\A a \in AccountIDs, n \in 1..MaxLogs :
          (StoreLogsCall(a, n) /\ TotalPending + n >= batchSize)
              => ret'.sends = 1]_vars

\* C4 (amended): the count is the caller tenant's own.  A StoreLogs call
\* that brings len(pendingBatches[accountID]) to the threshold or above makes
\* exactly one hand-off attempt of that tenant's whole pending batch within
\* the call, and the batch is queued when the channel is open and has room;
\* a call that leaves the tenant's count below the threshold makes none,
\* however many records other tenants have pending.
C4_ThresholdFlushPerTenant ==
    [][\A a \in AccountIDs, n \in 1..MaxLogs :
          StoreLogsCall(a, n) =>
              LET mine == MapGet(pendingBatches, a) \o NewLogs(n)
              IN IF Len(mine) >= batchSize
                 THEN /\ ret'.sends = 1
                      /\ (~chanClosed /\ Len(batchChan) < batchChanCap) =>
                            /\ batchChan' = Append(batchChan,
                                   [accountID |-> a, logs |-> mine])
                            /\ a \notin DOMAIN pendingBatches'
                 ELSE /\ ret'.sends = 0
                      /\ batchChan' = batchChan
                      /\ pendingBatches'[a] = mine]_vars

\* a threshold hand-off has happened while another tenant's records stay
\* pending
C4_Witness ==
    /\ ret.sends = 1
    /\ ret.result = "nil"
    /\ Len(batchChan) = 1
    /\ Len(batchChan[1].logs) >= batchSize
    /\ PendingRecords # {}
    /\ batchChan[1].accountID \notin DOMAIN pendingBatches

\* C5: every tick the batcher receives is followed by flushAll and by nothing
\* else of the batcher, and flushAll never waits but for batchMutex.  In its
\* loop, every tenant whose pending slice holds records, a single record
\* below the threshold included, has the whole slice sent as one batch when
\* batchChan has room at that moment, and its key deleted next; a slice
\* without records sends nothing.  When flushAll returns, the tenants with
\* records pending are those for which batchChan was full, and none of those
\* whose batch was sent; with nothing pending, no step of flushAll sends.
C5_TimerFlush ==
    /\ [][BatcherTick =>
            batcherPc' = "flushAll" /\ flushing'["es"].pc = "lock"]_vars
    /\ [](batcherPc = "flushAll" /\ batchMutex \in {"unlocked", "es"}
              => ENABLED BatcherFlushAll)
    /\ [][\A a \in AccountIDs :
             BatcherFlushVisit(a) =>
                LET logs == pendingBatches[a]
                IN /\ (Len(logs) > 0 /\ Len(batchChan) < batchChanCap) =>
                         /\ batchChan' = Append(batchChan,
                                [accountID |-> a, logs |-> logs])
                         /\ flushing'["es"].pc = "delete"
                         /\ flushing'["es"].key = a
                   /\ Len(logs) = 0 => batchChan' = batchChan]_vars
    /\ [][BatcherFlushDelete =>
            /\ flushing["es"].key \notin DOMAIN pendingBatches'
            /\ \A a \in DOMAIN pendingBatches \ {flushing["es"].key} :
                  /\ a \in DOMAIN pendingBatches'
                  /\ pendingBatches'[a] = pendingBatches[a]]_vars
    /\ [][BatcherFlushReturn =>
            /\ PendingAccounts' \subseteq flushing["es"].full
            /\ flushing["es"].sent \cap DOMAIN pendingBatches' = {}
            /\ batchMutex' = "unlocked"]_vars
    /\ [][BatcherFlushAll /\ PendingRecords = {} =>
            batchChan' = batchChan]_vars

\* one flushAll called for a tick has handed over the pending records of two
\* tenants, each below the threshold, and found batchChan full for neither;
\* nothing is left pending
C5_Witness ==
    /\ closePc = "idle"
    /\ batcherPc = "flushAll"
    /\ flushing["es"].pc = "range"
    /\ flushing["es"].todo = {}
    /\ flushing["es"].full = {}
    /\ Cardinality(flushing["es"].sent) = 2
    /\ PendingRecords = {}
    /\ batchSize > 1

\* C6 (as claimed): a StoreLogs call that brings the caller's pending count
\* above the threshold T hands over exactly T records and leaves the rest
\* pending; no batch queued or passed to bulkWrite holds more than T records.
C6_BatchSizeBound ==
    [][/\ \A a \in AccountIDs, n \in 1..MaxLogs :
             (/\ StoreLogsCall(a, n)
              /\ Len(MapGet(pendingBatches, a)) + n > batchSize
              /\ ~chanClosed
              /\ Len(batchChan) < batchChanCap)
                 => /\ Len(batchChan'[Len(batchChan')].logs) = batchSize
                    /\ Len(MapGet(pendingBatches', a)) =
                          Len(MapGet(pendingBatches, a)) + n - batchSize
       /\ \A b \in QueuedBatches' : Len(b.logs) <= batchSize
       /\ \A w \in Workers : Len(workerBatch'[w].logs) <= batchSize]_vars

(***************************************************************************)
(* Properties of the request gate (checked under SpecGate).                *)
(***************************************************************************)
\* the text of a header before its first space
HeaderScheme(h) ==
    LET i == IndexSpace(h, 1) IN IF i = 0 THEN h ELSE SubSeq(h, 1, i - 1)

\* the text of a header after its first space
HeaderToken(h) ==
    LET i == IndexSpace(h, 1)
    IN IF i = 0 THEN <<>> ELSE SubSeq(h, i + 1, Len(h))

\* the header is missing, or is not `Bearer <token>`: another scheme (the
\* scheme is compared without regard to case), or no token part
MalformedHeader(h) ==
    \/ h = <<>>
    \/ ToLower(HeaderScheme(h)) # Chars("bearer")
    \/ HeaderToken(h) = <<>>

\* the header is `Bearer`, one space, and a token that holds no space
WellFormedHeader(h) ==
    /\ ~MalformedHeader(h)
    /\ IndexSpace(HeaderToken(h), 1) = 0

\* C7: StoreLogs is invoked only for a request whose bearer token Validate
\* accepts, with accountID the decimal tenant id of the claims Validate
\* returned; a request answered 401 or 403, or one that reaches the handler
\* without claims, leaves the storage as it was.  Writing the answer after
\* StoreLogs has returned leaves the storage as it was.
C7_AuthGatesEnqueue ==
    [][/\ \A c \in Callers, req \in Requests :
             HandleRequest(c, req) =>
                 LET v == Validate(HeaderToken(req.header))
                     answer == AnswerOf(c)'
                 IN /\ answer.stored # NoCall =>
                          /\ ~MalformedHeader(req.header)
                          /\ v.err = ""
                          /\ v.AccountID # 0
                          /\ answer.stored = ToString(v.AccountID)
                    /\ answer.stored = NoCall => UNCHANGED storageVars
                    /\ answer.status \in {401, 403} =>
                          /\ answer.stored = NoCall
                          /\ UNCHANGED storageVars
                    /\ (MalformedHeader(req.header) \/ v.err # "") =>
                          /\ answer.status \in {401, 403}
                          /\ UNCHANGED storageVars
       /\ \A c \in Callers, m \in {"POST", "GET"}, b \in Bodies :
             HandleWithoutClaims(c, m, b) =>
                 /\ AnswerOf(c)'.stored = NoCall
                 /\ UNCHANGED storageVars
       /\ \A c \in Callers :
             Respond(c) =>
                 /\ resp' = serving[c].answer
                 /\ UNCHANGED storageVars]_vars

\* an accepted request stored its records under the tenant of its claims
C7_Witness ==
    /\ resp.status = 202
    /\ resp.accepted
    /\ resp.tenant = 77
    /\ resp.stored = "77"
    /\ "77" \in DOMAIN pendingBatches

\* C8: a request whose Authorization header is missing or malformed (a
\* scheme other than bearer, or no token part) is answered 401; Validate is
\* not invoked and the next handler is not called.  This holds in both
\* builds of the gate.
C8_MalformedHeader401 ==
    [][\A c \in Callers, req \in Requests \cup SplitRequests :
          (/\ MalformedHeader(req.header)
           /\ \/ req \in Requests /\ HandleRequest(c, req)
              \/ req \in SplitRequests /\ HandleRequestSplit(c, req)) =>
              /\ resp'.status = 401
              /\ ~resp'.validated
              /\ ~resp'.next
              /\ UNCHANGED <<storageVars, serving>>]_vars

\* the gate answered 401 without validating, after records were accepted
C8_Witness ==
    /\ resp.status = 401
    /\ ~resp.validated
    /\ ~resp.next
    /\ PendingRecords # {}

\* C9: for a well-formed Bearer header the answer is 403 exactly when
\* Validate returns an error, never 401, and then the next handler is not
\* called; 401 is answered by the gate only for a missing or malformed
\* header.  The build that splits at the first space validates whatever
\* follows the scheme; the build that splits at every space also answers 401
\* to a header with more than one space.
C9_ValidationFailure403 ==
    [][/\ \A c \in Callers, req \in Requests :
             HandleRequest(c, req) =>
                 LET v == Validate(HeaderToken(req.header))
                     answer == AnswerOf(c)'
                 IN /\ ~MalformedHeader(req.header) =>
                          /\ answer.validated
                          /\ (answer.status = 403) <=> (v.err # "")
                          /\ answer.status # 401
                          /\ answer.status = 403 => ~answer.next
                          /\ v.err = "" => answer.next
                    /\ answer.status = 401 => MalformedHeader(req.header)
       /\ \A c \in Callers, req \in SplitRequests :
             HandleRequestSplit(c, req) =>
                 LET v == Validate(HeaderToken(req.header))
                     answer == AnswerOf(c)'
                 IN /\ WellFormedHeader(req.header) =>
                          /\ answer.validated
                          /\ (answer.status = 403) <=> (v.err # "")
                          /\ answer.status # 401
                          /\ answer.status = 403 => ~answer.next
                          /\ v.err = "" => answer.next
                    /\ answer.status = 401 =>
                          ~WellFormedHeader(req.header)
       /\ \A c \in Callers :
             Respond(c) => resp'.status \notin {401, 403}]_vars

\* the gate answered 403 to a token Validate rejected
C9_Witness ==
    /\ resp.status = 403
    /\ resp.validated
    /\ ~resp.accepted
    /\ ~resp.next
    /\ PendingRecords # {}

(***************************************************************************)
(* Properties of the tenant resolver (checked under SpecSync).             *)
(***************************************************************************)
\* the tenant field a build reads from a record
TenantField(build, logEntry) ==
    IF build = "indexer" THEN logEntry.log_account_id
    ELSE logEntry.account_id

\* the destination a build names after a tenant
DestinationOf(build, account) ==
    IF build = "indexer" THEN indexName(account) ELSE dsName(account)

\* the record asserts the sentinel, or asserts nothing
AssertsSentinelOrNothing(build, logEntry) ==
    TenantField(build, logEntry)
        \in {JAbsent, JNull, JString(""), JString(Sentinel)}

\* the StoreLogs calls whose bulk request has been built, each with its
\* build, its arguments and the request's body
BuiltCalls ==
    {[build |-> syncCall[c].build, accountID |-> syncCall[c].accountID,
      logs |-> syncCall[c].logs, body |-> syncOut[c].body] : c \in Callers}
    \cup {[build |-> flush[f].build, accountID |-> flush[f].accountID,
           logs |-> flush[f].logs, body |-> flush[f].body] : f \in Flushers}

\* C10 (as claimed): in the bulk request a synchronous build makes for
\* credential tenant X, every record that asserts the sentinel "1000000" or
\* asserts nothing is addressed to the destination of X, never to the
\* destination named after the sentinel.
C10_SentinelToCredential ==
    \A c \in BuiltCalls :
        \A i \in 1..Len(c.body) :
            AssertsSentinelOrNothing(c.build, c.logs[i]) =>
                c.body[i].index = DestinationOf(c.build, c.accountID)

\* the functions that resolve a record's tenant
ResolverFns ==
    {"chooseAccountId", "chooseEffectiveAccountID", "inlineEffectiveAccount"}

\* C11: every application of a resolver to a pair (Y, X) returns a string
\* that is decided by (Y, X) alone: X when Y = X, and Y when Y is none of
\* "", the sentinel and X.
C11_ResolverRules2And3 ==
    applied.fn \in ResolverFns =>
        LET y == applied.logAccount
            x == applied.tokenAccount
        IN /\ applied.out \in {x, y, Sentinel}
           /\ y = x => applied.out = x
           /\ y \notin {"", Sentinel, x} => applied.out = y

\* chooseAccountId returned the asserted tenant of a record that asserts
\* another tenant than the credential's
C11_Witness ==
    /\ applied.fn = "chooseAccountId"
    /\ applied.logAccount = "77"
    /\ applied.tokenAccount = "42"
    /\ applied.out = "77"

\* C12 (as claimed): in every bulk write, each record's destination is the
\* destination of resolve(the tenant that record asserts, the credential
\* tenant), record by record.
C12_PerRecordFanOut ==
    \A w \in Workers :
        workerPc[w] = "bulkWrite" =>
            LET b == workerBatch[w]
                body == bulkWriteBody(b.accountID, b.logs)
            IN \A i \in 1..Len(body) :
                  body[i].index =
                      bulkIndexName(chooseEffectiveAccountID(
                          AccountOfValue(RecordEntry(b.logs[i]).account_id),
                          b.accountID))

\* the records of a batch are in the order in which they were created
InOrder(logs) == \A i, j \in 1..Len(logs) : i < j => logs[i] < logs[j]

\* C25: the records of one StoreLogs call are numbered in the order of the
\* request's array; every batch (pending, queued in batchChan, held by a
\* worker) lists its records in that order, in every interleaving, and the
\* body bulkWrite builds has one item per record of the batch, in the
\* order of the batch.
C25_OrderWithinBatch ==
    /\ \A a \in DOMAIN pendingBatches : InOrder(pendingBatches[a])
    /\ \A i \in 1..Len(batchChan) : InOrder(batchChan[i].logs)
    /\ \A w \in Workers :
          workerPc[w] = "bulkWrite" =>
              LET b == workerBatch[w]
                  body == bulkWriteBody(b.accountID, b.logs)
              IN /\ InOrder(b.logs)
                 /\ Len(body) = Len(b.logs)
                 /\ \A i \in 1..Len(body) :
                       body[i].doc.log_account_id =
                           RecordEntry(b.logs[i]).log_account_id

\* a worker writes a batch that holds the records of more than one call
\* while other records are pending
C25_Witness ==
    /\ \E w \in Workers :
          /\ workerPc[w] = "bulkWrite"
          /\ Len(workerBatch[w].logs) >= 2
    /\ pendingBatches # << >>

\* C26: at the end of every flushAll, whatever the state of batchChan, no
\* tenant's pending batch is at or above the batch-size threshold.
C26_BelowThresholdAfterFlush ==
    [][BatcherFlushReturn =>
          \A a \in DOMAIN pendingBatches' :
              Len(pendingBatches'[a]) < batchSize]_vars

\* C28: no bulkWrite runs its backend call on a cancelled context: a call in
\* flight when Close cancels es.ctx, or started afterwards for the final
\* flush, is not failed by the cancellation.
C28_NoHardCancel ==
    \A w \in Workers :
        workerPc[w] = "bulkWrite" =>
            /\ workerReq[w] = "live"
            /\ ~ctxDone

\* C27: a StoreLogs call made after Close was called appends nothing to the
\* pending buffer and makes no send on batchChan.
C27_NoAccumulationAfterClose ==
    [][\A a \in AccountIDs, n \in 1..MaxLogs :
          StoreLogsCall(a, n) /\ closePc # "idle" =>
              /\ pendingBatches' = pendingBatches
              /\ batchChan' = batchChan
              /\ ret'.sends = 0
              /\ ret'.result # "panic"]_vars

\* C29: Close has returned only when the batcher and every worker have
\* exited, batchChan is closed only then, and under fair scheduling a Close
\* that was called returns, whatever StoreLogs calls, ticks and bulk writes
\* are interleaved with it.
C29_CloseWaitsAndReturns ==
    /\ [](closePc = "returned" =>
            /\ \A w \in Workers : workerPc[w] = "exited"
            /\ batcherPc = "exited")
    /\ [](chanClosed =>
            /\ \A w \in Workers : workerPc[w] = "exited"
            /\ batcherPc = "exited"
            /\ closePc = "returned")
    /\ (closePc # "idle" ~> closePc = "returned")

\* Close has returned after a worker finished a bulk write that was in
\* flight when Close was called, with records accepted during the shutdown
C29_Witness ==
    /\ closePc = "returned"
    /\ chanClosed
    /\ closeMark > 1
    /\ nextId > closeMark

(***************************************************************************)
(* Properties of the server over the bulk-indexer build (checked under     *)
(* SpecGateIndexer).                                                       *)
(***************************************************************************)
\* C13: claims are accepted only with a tenant id other than 0, StoreLogs is
\* called only with a non-empty credential tenant, the resolver returns a
\* non-empty tenant whenever the credential tenant is non-empty, and so every
\* item handed to the bulk indexer names a destination with a non-empty
\* tenant.
C13_NonEmptyResolvedTenant ==
    /\ resp.accepted => resp.tenant # 0
    /\ resp.stored # NoCall => resp.stored # ""
    /\ \A y \in ResolverLogAccounts, x \in ResolverTokenAccounts \ {""} :
          chooseEffectiveAccountID(y, x) # ""
    /\ \A c \in Callers :
          syncCall[c].build = "indexer" =>
             /\ syncCall[c].accountID # ""
             /\ \A i \in 1..Len(syncOut[c].body) :
                   /\ syncOut[c].body[i].index # indexName("")
                   /\ syncOut[c].body[i].index =
                         indexName(chooseEffectiveAccountID(
                             extractLogAccountID(syncCall[c].logs[i]),
                             syncCall[c].accountID))
    /\ \A i \in 1..Len(indexer.queue) :
          indexer.queue[i].index # indexName("")

\* a record asserting the sentinel was handed to the indexer under the
\* destination of the credential tenant 42
C13_Witness ==
    \E c \in Callers :
        /\ syncCall[c].http
        /\ syncCall[c].base.accepted
        /\ syncCall[c].base.tenant = 42
        /\ Len(syncOut[c].body) >= 3
        /\ extractLogAccountID(syncCall[c].logs[3]) = Sentinel
        /\ syncOut[c].body[3].index = "logs-account-42"

\* C19 (as stated): a request whose method is not POST is answered 405
\* whatever its Authorization header, and leaves the storage as it was.
C19_OtherMethod405 ==
    [][\A c \in Callers, req \in Requests :
          req.method # "POST" /\ HandleRequest(c, req) =>
              /\ resp'.status = 405
              /\ UNCHANGED storageVars]_vars

\* C19 (amended): a request whose method is not POST never reaches StoreLogs
\* and leaves the storage as it was; the gate answers first, 401 for a
\* missing or malformed header and 403 for a token Validate rejects, and the
\* handler answers 405 only when the gate let the request through.  The
\* handler entered on its own answers 405 without looking at the claims.
C19_OtherMethodAfterGate ==
    [][/\ \A c \in Callers, req \in Requests :
             req.method # "POST" /\ HandleRequest(c, req) =>
                 /\ UNCHANGED <<storageVars, serving>>
                 /\ resp'.stored = NoCall
                 /\ resp'.status =
                      IF MalformedHeader(req.header) THEN 401
                      ELSE IF Validate(HeaderToken(req.header)).err # ""
                      THEN 403
                      ELSE 405
       /\ \A c \in Callers, b \in Bodies :
             HandleWithoutClaims(c, "GET", b) =>
                 /\ UNCHANGED <<storageVars, serving>>
                 /\ resp'.status = 405]_vars

\* a GET with an accepted token was answered 405 by the handler
C19_Witness ==
    /\ resp.status = 405
    /\ resp.validated
    /\ resp.accepted
    /\ resp.next
    /\ resp.stored = NoCall

\* C20: an authenticated POST whose body is not a well-formed JSON array of
\* log objects is answered 400, StoreLogs is not invoked and the storage is
\* left as it was.
C20_BadBody400 ==
    [][\A c \in Callers, req \in Requests :
          (/\ req.method = "POST"
           /\ req.body.kind # "array"
           /\ HandleRequest(c, req)
           /\ AnswerOf(c)'.accepted) =>
              /\ AnswerOf(c)'.status = 400
              /\ AnswerOf(c)'.stored = NoCall
              /\ UNCHANGED storageVars]_vars

\* C18: every request for which StoreLogs was called and has returned is
\* answered 202, whatever the storage layer did with the records.
C18_StoredAnswered202 == resp.stored # NoCall => resp.status = 202

(***************************************************************************)
(* Properties of the token validators (checked under SpecValidate).        *)
(***************************************************************************)
ValidatorFns == {"Validate", "ValidateRSAOnly", "validateJWT"}

\* the validator was applied with signature verification skipped
SkipMode == applied.config.InsecureSkipVerify

\* C14: a token whose exp lies in the past is rejected by every validator in
\* every configuration, signature verification skipped or not.
C14_ExpiredRejected ==
    applied.fn \in ValidatorFns /\ Expired(applied.token) =>
        applied.out.err # ""

\* C15: with signature verification on, Validate returns claims only for a
\* token that parses, uses an RSA signing method and whose signature
\* verifies against the public key.
C15_SignatureRequired ==
    /\ applied.fn \in {"Validate", "ValidateRSAOnly"}
    /\ ~SkipMode
    /\ applied.out.err = ""
    => /\ applied.token.parses
       /\ IsRSA(applied.token.alg)
       /\ applied.token.sigOK

\* an RS256 token with a signature that does not verify was rejected with
\* verification on
C15_Witness ==
    /\ applied.fn \in {"Validate", "ValidateRSAOnly"}
    /\ ~SkipMode
    /\ applied.token.parses
    /\ applied.token.alg = "RS256"
    /\ ~applied.token.sigOK
    /\ ~Expired(applied.token)
    /\ applied.token.AccountID = 42
    /\ applied.out.err # ""

\* the token carries a tenant the validator can use
UsableTenant(fn, t) ==
    IF fn = "validateJWT" THEN GetCustomerID(t) # "" ELSE t.AccountID # 0

\* the tenant of the claims returned is the tenant of the token
SameTenant(fn, out, t) ==
    IF fn = "validateJWT" THEN GetCustomerID(out) = GetCustomerID(t)
    ELSE out.AccountID = t.AccountID

\* the issuer and audience checks of the proxy pass
IssuerAndAudienceAllowed(t, config) ==
    /\ config.AllowedIssuers # {} => t.Issuer \in config.AllowedIssuers
    /\ config.AllowedAudiences # {} /\ Len(t.Audience) > 0 =>
          \E i \in 1..Len(t.Audience) :
              t.Audience[i] \in config.AllowedAudiences

\* the signature of the token verifies with a method of the configured key
ValidSignature(t, config) ==
    t.parses /\ t.sigOK /\ MethodAccepted(t, config.keyKind)

\* C16 (as stated): every token with a valid signature and a usable tenant
\* is accepted and the claims returned carry that tenant.
C16_ValidSignatureSucceeds ==
    /\ applied.fn \in ValidatorFns
    /\ ValidSignature(applied.token, applied.config)
    /\ UsableTenant(applied.fn, applied.token)
    => /\ applied.out.err = ""
       /\ SameTenant(applied.fn, applied.out, applied.token)

\* C16 (amended): a token with a usable tenant is accepted, and the claims
\* returned carry that tenant, when verification is skipped and the token
\* parses, or when its signature is valid, its exp (if it has one) lies
\* after the time of validation, its nbf is not in the future and, in the proxy, its issuer and audience pass
\* the configured checks; claims are never returned with another tenant.
C16_ValidTokenSucceeds ==
    applied.fn \in ValidatorFns =>
        LET t == applied.token
            config == applied.config
        IN /\ applied.out.err = "" =>
                SameTenant(applied.fn, applied.out, t)
           /\ /\ UsableTenant(applied.fn, t)
              /\ t.parses
              /\ \/ config.InsecureSkipVerify
                 \/ /\ ValidSignature(t, config)
                    /\ t.hasExp => t.expiresIn > 0
                    /\ ~t.notYetValid
                    /\ applied.fn = "validateJWT" =>
                          IssuerAndAudienceAllowed(t, config)
              => applied.out.err = ""

\* a signed, unexpired RS256 token of tenant 42 was accepted with
\* verification on
C16_Witness ==
    /\ applied.fn = "Validate"
    /\ ~SkipMode
    /\ ValidSignature(applied.token, applied.config)
    /\ applied.token.AccountID = 42
    /\ applied.out = [err |-> "", AccountID |-> 42]

\* every other check of the validator passes for the token
PassesOtherChecks(fn, t, config) ==
    /\ t.parses
    /\ \/ config.InsecureSkipVerify
       \/ /\ ValidSignature(t, config)
          /\ t.hasExp => t.expiresIn > 0
          /\ ~t.notYetValid
          /\ fn = "validateJWT" => IssuerAndAudienceAllowed(t, config)

\* C17: a token without a usable tenant is rejected by every validator, with
\* verification on and skipped, with the missing-tenant error when it passes
\* every other check; claims returned always carry a usable tenant.
C17_MissingTenantRejected ==
    applied.fn \in ValidatorFns =>
        /\ ~UsableTenant(applied.fn, applied.token) =>
              /\ applied.out.err # ""
              /\ PassesOtherChecks(applied.fn, applied.token, applied.config)
                   => applied.out.err \in
                        {"accountId not found in token",
                         "customer_id or accountId not found in token"}
        /\ applied.out.err = "" => UsableTenant(applied.fn, applied.out)

\* a token that parses but has no accountId was rejected in skip mode
C17_Witness ==
    /\ applied.fn = "Validate"
    /\ SkipMode
    /\ applied.token.parses
    /\ applied.token.AccountID = 0
    /\ applied.out.err = "accountId not found in token"

(***************************************************************************)
(* Properties of provisioning (checked under SpecEnsure).                  *)
(***************************************************************************)
\* C21: once a call of ensureDataStreamExists has returned nil for a data
\* stream, no later call contacts the backend for it: the existence checks
\* and creations of a stream are made by at most one call.
C21_ProvisionedOnce ==
    [][\A f \in Flushers, outcome \in RoundTrips :
          CheckTemplate(f, outcome) => Head(flush[f].todo) \notin ensured]_vars

\* C22: a creation of a data stream that the backend answers makes the call
\* go on as a success, whether it created the stream or was answered that
\* the stream exists already (another call won the race): the Kibana call
\* follows, and after it ensureDataStreamExists has returned nil and the
\* call is at its next data stream or at the bulk request; the stream is
\* created by at most one of the calls.
C22_RaceBothSucceed ==
    [][\A f \in Flushers :
          LET d == Head(flush[f].todo)
          IN /\ CreateStream(f, "answer") =>
                   /\ flush'[f].ret # "error"
                   /\ flush'[f].pc = "kibana"
                   /\ d \in esStreams'
                   /\ d \in esStreams => created'[d] = created[d]
                   /\ created'[d] = 1
             /\ createKibanaIndexPattern(f) /\ flush[f].build = "dataStream" =>
                   /\ flush'[f].ret # "error"
                   /\ flush'[f].pc \in {"checkTemplate", "bulk"}
                   /\ d \in ensured']_vars

\* both calls of ensureDataStreamExists saw the stream absent and issued its
\* creation, it was created once, and both calls returned nil
C22_Witness ==
    \E d \in Destinations :
        /\ \A f \in Flushers :
              /\ flush[f].build = "dataStream"
              /\ d \in flush[f].issued
              /\ flush[f].pc = "returned"
              /\ flush[f].ret = "nil"
        /\ created[d] = 1

\* C23: when the creation of a template or of a data stream fails (request
\* error, or an error status other than already-exists), the call of
\* ensureDataStreamExists returns an error and StoreLogs returns it.
C23_CreationFailureSurfaces ==
    [][\A f \in Flushers, outcome \in {"5xx", "err"} :
          CreateTemplate(f, outcome) \/ CreateStream(f, outcome) =>
              /\ flush'[f].pc = "returned"
              /\ flush'[f].ret = "error"]_vars

\* C30: when the bulk request is sent, the template and the data stream of
\* every data stream addressed in it were confirmed by the call: a HEAD
\* answered 200, or a creation answered 2xx (or already-exists).
C30_EnsureBeforeWrite ==
    \A f \in Flushers :
        flush[f].pc = "bulk" =>
            \A d \in flush[f].addressed :
                {<<d, "template">>, <<d, "stream">>} \subseteq
                    flush[f].confirmed

(***************************************************************************)
(* Properties of the bulk response handling (checked under SpecBulk).      *)
(***************************************************************************)
BulkFns == {"StoreLogsEsapi", "StoreLogsDirect"}

\* C24: a bulk call answered 2xx returns nil whether or not the response
\* reports rejected items, which are logged; a request error or a status
\* outside 2xx makes the call return an error; in every case one bulk
\* request is sent, none is repeated.
C24_PartialVersusTransport ==
    applied.fn \in BulkFns /\ applied.n > 0 =>
        LET r == applied.response
            transportOK == ~r.err /\ r.status \in 200..299
        IN /\ transportOK => applied.out.ret = "nil"
           /\ ~transportOK => applied.out.ret = "error"
           /\ applied.out.requests = 1
           /\ applied.out.logged <=> (transportOK /\ r.decodes /\ r.errors)

\* a 200 response that reports rejected items was handled: nil, logged
C24_Witness ==
    /\ applied.fn = "StoreLogsEsapi"
    /\ applied.n = 2
    /\ applied.response = BulkResponse(FALSE, 200, TRUE, TRUE)
    /\ applied.out = BulkHandled("nil", 1, TRUE)

(***************************************************************************)
(* Properties of the flush path, continued (checked under SpecEnsure).     *)
(***************************************************************************)
\* the steps of ensureDataStreamExists
EnsureSteps ==
    {"checkTemplate", "createTemplate", "checkStream", "createStream",
     "kibana"}

\* C31: provisioning failure is isolated per destination: when a step of
\* ensureDataStreamExists fails in a call that addresses several data
\* streams, the call does not end there; it goes on to the bulk request for
\* the records of the other data streams.
C31_FailureIsolated ==
    [][\A f \in Flushers :
          (/\ flush[f].pc \in EnsureSteps
           /\ Cardinality(flush[f].addressed) > 1
           /\ flush'[f].ret = "error")
          => flush'[f].pc # "returned"]_vars

(***************************************************************************)
(* Properties of the workers (checked under SpecWorker).                   *)
(***************************************************************************)
\* C32: a flush error does not stop the background worker: a worker whose
\* bulkWrite returned an error is back at its select, where it receives the
\* next batch of batchChan, and no worker exits before shutdown is requested.
C32_WorkerSurvivesError ==
    /\ [](\A w \in Workers :
            /\ workerPc[w] = "exited" => ctxDone
            /\ writeLog[w] = "error" /\ workerPc[w] = "select"
                                     /\ batchChan # <<>>
               => ENABLED WorkerRecv(w))
    /\ [][\A w \in Workers :
             BulkWriteLogged(w, "error") => workerPc'[w] = "select"]_vars
    /\ [][\A w \in Workers :
             workerPc[w] # "exited" /\ workerPc'[w] = "exited" => ctxDone]_vars

\* C32 witness: a worker that logged a failed write holds the next batch
\* while no shutdown is requested.
C32_Witness ==
    \E w \in Workers :
        /\ writeLog[w] = "error"
        /\ workerPc[w] = "bulkWrite"
        /\ ~ctxDone

C34_PerInstancePending ==
    /\ [](\A i \in 1..Len(otherChan) :
             Range(otherChan[i].logs) \cap (1..(nextId - 1)) = {})
    /\ [][OtherBatcherTick \/ OtherFlushAll =>
            UNCHANGED pendingBatches]_vars

\* C35: record mutation frame: the document written for a record holds the
\* tags the pipeline adds (the tenant tags and the ingestion timestamp) and
\* every field the submitter gave, unchanged; in particular the record's own
\* asserted-tenant fields keep the submitted values.
C35_MutationFrame ==
    \A w \in Workers :
        workerPc[w] = "bulkWrite" =>
            LET b == workerBatch[w]
                body == bulkWriteBody(b.accountID, b.logs)
            IN \A i \in 1..Len(body) :
                  /\ body[i].doc.timestamp
                  /\ body[i].doc.account_id =
                         RecordEntry(b.logs[i]).account_id
                  /\ body[i].doc.log_account_id =
                         RecordEntry(b.logs[i]).log_account_id

\* the places record r is held at: a slot of a pending batch, of a batch
\* queued in batchChan, or of the batch a worker passed to bulkWrite
Copies(r) ==
    {s \in {"pending"} \X (DOMAIN pendingBatches) \X (1..MaxRecords) :
        /\ s[3] <= Len(pendingBatches[s[2]])
        /\ pendingBatches[s[2]][s[3]] = r}
    \cup {s \in {"queued"} \X (1..Len(batchChan)) \X (1..MaxRecords) :
        /\ s[3] <= Len(batchChan[s[2]].logs)
        /\ batchChan[s[2]].logs[s[3]] = r}
    \cup {s \in {"held"} \X Workers \X (1..MaxRecords) :
        /\ s[3] <= Len(workerBatch[s[2]].logs)
        /\ workerBatch[s[2]].logs[s[3]] = r}

\* the tenants whose batch a flushAll has sent and whose key it has not yet
\* deleted
SentNotDeleted ==
    {flushing[i].key : i \in {j \in Instances : flushing[j].pc = "delete"}}

\* the pending records but those of a batch sent and not yet deleted
LivePending ==
    UNION {Range(pendingBatches[a]) :
              a \in (DOMAIN pendingBatches) \ SentNotDeleted}

\* the records the storage holds, each counted where it was handed to
InFlightLive == LivePending \cup QueuedRecords \cup HeldRecords

\* the places of record r but the pending slots of a batch sent and not yet
\* deleted
LiveCopies(r) ==
    {s \in Copies(r) : ~(s[1] = "pending" /\ s[2] \in SentNotDeleted)}

\* C36 (as claimed): record conservation while running: as long as shutdown
\* has not been requested, in each reachable state a record is held at one
\* place at most; every record StoreLogs accepts is held; a held record
\* stays held until the bulkWrite of the worker that received it returns;
\* and a record that left this way is never held again (no second write).
\* A failed non-blocking send leaves its batch in the pending buffer.
C36_ExactlyOnePlace ==
    /\ [](~ctxDone =>
            \A r \in 1..MaxRecords :
                /\ Cardinality(Copies(r)) <= 1
                /\ r \in InFlight => r < nextId
                /\ r \in failedSend => r \in InFlight)
    /\ [][~ctxDone' =>
            /\ \A r \in nextId..(nextId' - 1) : r \in InFlight'
            /\ \A r \in 1..(nextId - 1) :
                  /\ r \notin InFlight => r \notin InFlight'
                  /\ r \in InFlight /\ r \notin InFlight' =>
                        \E w \in Workers :
                            /\ workerPc[w] = "bulkWrite"
                            /\ workerPc'[w] = "select"
                            /\ r \in Range(workerBatch[w].logs)]_vars

\* C36 (amended): record conservation while running: as long as shutdown
\* has not been requested, whenever batchMutex is unlocked a record is held
\* at one place at most.  While flushAll holds batchMutex, between its send
\* of a tenant's batch and its delete of the tenant's key, the records of
\* that batch are in pendingBatches as well as where the send took them
\* (queued, with a worker, or written already), and no other record is at
\* two places.  Counting a record sent where the send took it: every record
\* StoreLogs accepts is held; a held record stays held until the bulkWrite
\* of the worker that received it returns; a record that left this way is
\* never held again (no second write); no record is in two batches.  A
\* failed non-blocking send leaves its batch in the pending buffer.
C36_RecordConservation ==
    /\ [](~ctxDone =>
            /\ batchMutex = "unlocked" => SentNotDeleted = {}
            /\ \A r \in 1..MaxRecords :
                  /\ Cardinality(LiveCopies(r)) <= 1
                  /\ Cardinality(Copies(r) \ LiveCopies(r)) <= 1
                  /\ batchMutex = "unlocked" => Cardinality(Copies(r)) <= 1
                  /\ r \in InFlight => r < nextId
                  /\ r \in failedSend => r \in InFlightLive)
    /\ [][~ctxDone' =>
            /\ \A r \in nextId..(nextId' - 1) : r \in InFlightLive'
            /\ \A r \in 1..(nextId - 1) :
                  /\ r \notin InFlightLive => r \notin InFlightLive'
                  /\ r \in InFlightLive /\ r \notin InFlightLive' =>
                        \E w \in Workers :
                            /\ workerPc[w] = "bulkWrite"
                            /\ workerPc'[w] = "select"
                            /\ r \in Range(workerBatch[w].logs)]_vars

\* C36 witness: with no shutdown requested, a worker writes the batch that
\* flushAll has sent while flushAll is about to delete the tenant's key, and
\* another tenant's batch is pending after its hand-off failed
C36_Witness ==
    /\ ~ctxDone
    /\ flushing["es"].pc = "delete"
    /\ \E w \in Workers :
          /\ workerPc[w] = "bulkWrite"
          /\ workerBatch[w].accountID = flushing["es"].key
          /\ Range(workerBatch[w].logs) \subseteq PendingRecords
    /\ failedSend \cap LivePending # {}

(***************************************************************************)
(* Properties of the running storage (checked under SpecRunning).          *)
(***************************************************************************)
\* C37 (as claimed): eventual flush: with the ticker firing, every backend
\* call returning and no shutdown requested, every record StoreLogs accepted
\* is eventually in a batch passed to bulkWrite, also when batchChan was
\* full at its first hand-off.
C37_AlwaysEventualFlush ==
    \A r \in 1..MaxRecords : (r \in InFlightLive) ~> (r \in HeldRecords)

\* C37 (amended): eventual flush once the load ends: with the ticker
\* firing, every backend call returning and no shutdown requested, if from
\* some moment on no StoreLogs call is made, every record StoreLogs accepted
\* is eventually in a batch passed to bulkWrite, also when batchChan was
\* full at its first hand-off.  A hand-off that succeeded is followed by the
\* write under any load.
C37_EventualFlush ==
    /\ \A r \in 1..MaxRecords : (r \in QueuedRecords) ~> (r \in HeldRecords)
    /\ <>[][~(\E a \in AccountIDs, n \in 0..MaxLogs : StoreLogsCall(a, n))]_vars
          => \A r \in 1..MaxRecords :
                (r \in InFlightLive) ~> (r \in HeldRecords)

\* C37 witness: a worker passed to bulkWrite a record whose first hand-off
\* found batchChan full
C37_Witness ==
    \E w \in Workers :
        /\ workerPc[w] = "bulkWrite"
        /\ Range(workerBatch[w].logs) \cap failedSend # {}

(***************************************************************************)
(* Properties of a repeated Close (checked under SpecCloseTwice).          *)
(***************************************************************************)
\* C38: Close is idempotent: a second call, made after the first has
\* returned, returns nil and changes nothing of the storage.
C38_CloseIdempotent ==
    [][CloseAgain =>
          /\ ret'.result = "nil"
          /\ UNCHANGED <<pendingBatches, batchChan, chanClosed, ctxDone,
                         tickerStopped, workerPc, batcherPc>>]_vars

(***************************************************************************)
(* Properties of the tenant resolver, continued (checked under SpecSync).  *)
(***************************************************************************)
\* a tenant value with a JSON number replaced by the equivalent decimal string
AsDecimalString(v) ==
    IF v.type = "float64" THEN JString(ToString(v.num)) ELSE v

\* the record with its tenant fields encoded as strings
StringEncoded(logEntry) ==
    LogEntry(AsDecimalString(logEntry.account_id),
             AsDecimalString(logEntry.log_account_id))

\* the destination a build gives a record submitted alone by the caller
DestinationGiven(build, accountID, logEntry) ==
    CASE build = "dataStream" ->
             BulkBodyDataStream(accountID, <<logEntry>>)[1].index
      [] build = "inline" ->
             BulkBodyInline(accountID, <<logEntry>>)[1].index
      [] OTHER ->
             BulkItemsIndexer(accountID, <<logEntry>>)[1].index

\* C39: the record's asserted tenant is read independently of its JSON
\* encoding: in the bulk request of every synchronous build, a record
\* whose tenant field holds a JSON number is addressed to the destination
\* the build gives the same record with the number written as a decimal
\* string.
C39_EncodingIndependent ==
    \A c \in BuiltCalls :
        \A i \in 1..Len(c.body) :
            TenantField(c.build, c.logs[i]).type = "float64" =>
                c.body[i].index =
                    DestinationGiven(c.build, c.accountID,
                                     StringEncoded(c.logs[i]))

====
